---- MODULE Spec2Model ----
(***************************************************************************)
(* Command orchestration engine of the osmo backend: the policy evaluator  *)
(* (app/core/policy.py), the executor (app/core/executor.py) and the       *)
(* command / confirm handlers with the pending-plan store                  *)
(* (app/api/command.py).                                                   *)
(*                                                                         *)
(* Three specifications share the module:                                  *)
(*   SpecPolicy    evaluate() applied repeatedly to a drawn plan           *)
(*   SpecExecutor  one Executor running passes over drawn plans            *)
(*   SpecApi       /command, /command/confirm, /command/session/clear      *)
(***************************************************************************)
EXTENDS Naturals, Integers, Sequences, FiniteSets, TLC

(***************************************************************************)
(* Bounds of the model.                                                    *)
(***************************************************************************)
MaxPolicySteps == 1
MaxPlanSteps == 3
MaxPlans == 1
MaxRequests == 3
MaxToolCalls == 2
MaxTurns == 7
MaxResults == 2
SessionMaxMessages == 5

(***************************************************************************)
(* Generic helpers.                                                        *)
(***************************************************************************)
SeqsUpTo(S, n) == UNION {[1..k -> S] : k \in 0..n}

\* dict.get(key, default)
DictGet(d, key, default) == IF key \in DOMAIN d THEN d[key] ELSE default

(***************************************************************************)
(* schemas/action_plan.py                                                  *)
(***************************************************************************)
RiskLevel == {"low", "medium", "high"}

\* confirmation_phrase: str | None.  A phrase is None or a string; a string
\* is kept as its sequence of tokens, so the empty string is Str(<<>>).
NonePhrase == [none |-> TRUE, text |-> <<>>]

Str(tokens) == [none |-> FALSE, text |-> tokens]

\* Python truthiness of an optional string: None and "" are falsy.
Truthy(phrase) == ~phrase.none /\ phrase.text # <<>>

\* ActionPlan.needs_confirmation
needs_confirmation(steps) == \E i \in DOMAIN steps : steps[i].requires_confirmation

\* Mutant of max_risk: the risk of the last step.
MaxRiskOfLast(steps) == IF steps = <<>> THEN "low" ELSE steps[Len(steps)].risk_level

\* ActionPlan.max_risk: max(self.steps, key=order[risk_level]).risk_level,
\* low for no steps; max returns the first step of greatest order
max_risk(steps) ==
    IF steps = <<>> THEN "low"
    ELSE LET rank(r) == CASE r = "low" -> 0 [] r = "medium" -> 1 [] r = "high" -> 2
             first == CHOOSE i \in DOMAIN steps :
                         /\ \A j \in DOMAIN steps :
                               rank(steps[j].risk_level) <= rank(steps[i].risk_level)
                         /\ \A j \in 1..(i - 1) :
                               rank(steps[j].risk_level) < rank(steps[i].risk_level)
         IN steps[first].risk_level

(***************************************************************************)
(* core/policy.py                                                          *)
(***************************************************************************)
DESTRUCTIVE_TOOLS == {"google_calendar.delete_event", "ios_eventkit.delete_event"}

ATTENDEE_TOOLS == {"google_calendar.create_event", "google_calendar.update_event"}

NOTIFICATION_SEND_VALUES == {"all", "externalOnly"}

\* order = {RiskLevel.low: 0, RiskLevel.medium: 1, RiskLevel.high: 2}
order(r) == CASE r = "low" -> 0 [] r = "medium" -> 1 [] r = "high" -> 2

\* Mutant of _upgrade_risk: the comparison is dropped, the target is assigned.
UpgradeRiskAssign(step, target) == [step EXCEPT !.risk_level = target]

\* Mutant of _upgrade_risk: every call escalates by one level.
UpgradeRiskBump(step, target) ==
    [step EXCEPT !.risk_level = IF step.risk_level = "low" THEN "medium" ELSE "high"]

_upgrade_risk(step, target) ==
    IF order(target) > order(step.risk_level)
    THEN [step EXCEPT !.risk_level = target]
    ELSE step

\* names = ", ".join(attendees[:3]); suffix = " and N more" if len > 3
InvitePhrase(attendees) ==
    Str(<<"This will invite">>
        \o SubSeq(attendees, 1, IF Len(attendees) < 3 THEN Len(attendees) ELSE 3)
        \o (IF Len(attendees) > 3 THEN <<"and", Len(attendees) - 3, "more">> ELSE <<>>)
        \o <<"Confirm?">>)

DeletePhrase == Str(<<"This will permanently delete an event. Are you sure?">>)

NotifyPhrase == Str(<<"This will send notifications to attendees. Confirm?">>)

\* Mutant of SetPhraseIfMissing: the default phrase is always written.
SetPhraseAlways(step, phrase) == [step EXCEPT !.confirmation_phrase = phrase]

SetPhraseIfMissing(step, phrase) ==
    IF ~Truthy(step.confirmation_phrase)
    THEN [step EXCEPT !.confirmation_phrase = phrase]
    ELSE step

\* if step.tool_name in DESTRUCTIVE_TOOLS: ...
DestructiveRule(step) ==
    IF step.tool_name \in DESTRUCTIVE_TOOLS
    THEN SetPhraseIfMissing(
            [_upgrade_risk(step, "high") EXCEPT !.requires_confirmation = TRUE],
            DeletePhrase)
    ELSE step

\* Mutant of AttendeesRule: attendees are ignored.
AttendeesRuleNever(step) == step

\* if attendees: ...
AttendeesRule(step) ==
    LET attendees == DictGet(step.args, "attendees", <<>>)
    IN IF attendees # <<>>
       THEN SetPhraseIfMissing(
               [_upgrade_risk(step, "medium") EXCEPT !.requires_confirmation = TRUE],
               InvitePhrase(attendees))
       ELSE step

\* if send_updates in NOTIFICATION_SEND_VALUES: ...
SendUpdatesRule(step) ==
    LET send_updates == DictGet(step.args, "send_updates", "none")
    IN IF send_updates \in NOTIFICATION_SEND_VALUES
       THEN SetPhraseIfMissing(
               [_upgrade_risk(step, "medium") EXCEPT !.requires_confirmation = TRUE],
               NotifyPhrase)
       ELSE step

\* _check_missing_fields only logs; it changes no step.
_apply_step_policy(step) ==
    LET s1 == DestructiveRule(step)
    IN IF s1.tool_name \in ATTENDEE_TOOLS
       THEN SendUpdatesRule(AttendeesRule(s1))
       ELSE s1

\* Mutant of evaluate: the steps come back in reverse order.
EvaluateReversed(steps) ==
    [i \in DOMAIN steps |-> _apply_step_policy(steps[Len(steps) + 1 - i])]

\* evaluate mutates the steps of the plan in place, in order.
evaluate(steps) == [i \in DOMAIN steps |-> _apply_step_policy(steps[i])]

(***************************************************************************)
(* Inputs of the policy specification: steps as the planner or a caller    *)
(* may hand them to evaluate.                                              *)
(***************************************************************************)
PolicyToolNames ==
    {"google_calendar.delete_event", "ios_eventkit.delete_event",
     "google_calendar.create_event", "google_calendar.update_event",
     "google_calendar.list_events"}

ArgShapes ==
    { <<>>,
      [attendees |-> <<>>],
      [attendees |-> <<"ann@x">>],
      [attendees |-> <<"ann@x", "bob@x", "cy@x", "dee@x">>],
      [send_updates |-> "none"],
      [send_updates |-> "all"],
      [attendees |-> <<"ann@x">>, send_updates |-> "externalOnly"] }

UpstreamPhrases == {NonePhrase, Str(<<>>), Str(<<"upstream phrase">>)}

PolicySteps ==
    [tool_name : PolicyToolNames,
     args : ArgShapes,
     risk_level : RiskLevel,
     requires_confirmation : BOOLEAN,
     confirmation_phrase : UpstreamPhrases,
     idempotency_key : {"k1"},
     execution_target : {"server"},
     tool_call_id : {"tc1"}]

(***************************************************************************)
(* tools/registry.py and the tools registered at process start.  An entry  *)
(* keeps what the orchestration reads of a tool: its execution_target.     *)
(***************************************************************************)
StartupRegistry ==
    [n \in {"google_calendar.list_events", "google_calendar.create_event",
            "google_calendar.update_event", "google_calendar.delete_event",
            "ios_eventkit.create_event", "ios_eventkit.delete_event",
            "ios_notifications.cancel"} |->
        IF n \in {"ios_eventkit.create_event", "ios_eventkit.delete_event",
                  "ios_notifications.cancel"}
        THEN [execution_target |-> "device"]
        ELSE [execution_target |-> "server"]]

\* get_tool(name) is None
ToolMissing(reg, name) == name \notin DOMAIN reg

(***************************************************************************)
(* Behaviour of a tool's execute: it returns a dict or raises.  An iOS     *)
(* tool (_IOSTool) always raises; a server tool may do either.             *)
(***************************************************************************)
\* An error message, like a phrase, is kept as its sequence of tokens.
Return(d) == [raises |-> FALSE, value |-> d, message |-> <<>>]

Raise(msg) == [raises |-> TRUE, value |-> <<>>, message |-> msg]

ToolOutcomes(reg, name) ==
    IF reg[name].execution_target = "device"
    THEN {Raise(<<name, "is a device-side tool and cannot be executed server-side">>)}
    ELSE {Return([event_id |-> "e1"]), Return(<<>>), Raise(<<"boom">>)}

(***************************************************************************)
(* core/executor.py                                                        *)
(***************************************************************************)
\* Optional values: None, or a present value.
None == [none |-> TRUE]

Some(v) == [none |-> FALSE, value |-> v]

StepResult(step, success, result, error, device_action) ==
    [step |-> step, success |-> success, result |-> result, error |-> error,
     device_action |-> device_action]

\* ExecutionResult.__init__
NewExecutionResult == [step_results |-> <<>>, device_actions |-> <<>>, all_succeeded |-> TRUE]

\* Mutant of ResultAdd: the newest result is put first.
ResultAddFront(res, sr) ==
    [step_results |-> <<sr>> \o res.step_results,
     device_actions |-> IF sr.device_action.none THEN res.device_actions
                        ELSE <<sr.device_action.value>> \o res.device_actions,
     all_succeeded |-> res.all_succeeded /\ sr.success]

\* ExecutionResult.add
ResultAdd(res, sr) ==
    [step_results |-> Append(res.step_results, sr),
     device_actions |-> IF sr.device_action.none THEN res.device_actions
                        ELSE Append(res.device_actions, sr.device_action.value),
     all_succeeded |-> res.all_succeeded /\ sr.success]

DeviceAction(step, action_id) ==
    [action_id |-> action_id, tool_name |-> step.tool_name, args |-> step.args,
     idempotency_key |-> step.idempotency_key]

_build_device_action(keys, step, action_id) ==
    [sr |-> StepResult(step, TRUE, None, None, Some(DeviceAction(step, action_id))),
     keys |-> keys \union {step.idempotency_key},
     invoked |-> FALSE]

\* Mutant of IdempotentSkip: the executed-key check is never taken.
IdempotentSkipNever(keys, step) == FALSE

\* if step.idempotency_key in self._executed_keys
IdempotentSkip(keys, step) == step.idempotency_key \in keys

\* The branch of _execute_step that awaits tool.execute.
Invokes(reg, keys, step) ==
    /\ ~IdempotentSkip(keys, step)
    /\ step.execution_target # "device"
    /\ ~ToolMissing(reg, step.tool_name)

\* Mutant of _execute_step: the device branch is tested before the executed-key
\* check, so a device step is delegated again on every pass.
ExecuteStepDeviceFirst(reg, keys, step, outcome, action_id) ==
    IF step.execution_target = "device"
    THEN _build_device_action(keys, step, action_id)
    ELSE IF IdempotentSkip(keys, step)
    THEN [sr |-> StepResult(step, TRUE, Some([skipped |-> TRUE]), None, None),
          keys |-> keys, invoked |-> FALSE]
    ELSE IF ToolMissing(reg, step.tool_name)
    THEN [sr |-> StepResult(step, FALSE, None, Some(<<"Unknown tool", step.tool_name>>), None),
          keys |-> keys, invoked |-> FALSE]
    ELSE IF outcome.raises
    THEN [sr |-> StepResult(step, FALSE, None, Some(outcome.message), None),
          keys |-> keys, invoked |-> TRUE]
    ELSE [sr |-> StepResult(step, TRUE, Some(outcome.value), None, None),
          keys |-> keys \union {step.idempotency_key}, invoked |-> TRUE]

\* Mutant of _execute_step: an exception of the tool is caught but its
\* message is dropped.
ExecuteStepErrorDropped(reg, keys, step, outcome, action_id) ==
    IF IdempotentSkip(keys, step)
    THEN [sr |-> StepResult(step, TRUE, Some([skipped |-> TRUE]), None, None),
          keys |-> keys, invoked |-> FALSE]
    ELSE IF step.execution_target = "device"
    THEN _build_device_action(keys, step, action_id)
    ELSE IF ToolMissing(reg, step.tool_name)
    THEN [sr |-> StepResult(step, FALSE, None, Some(<<"Unknown tool", step.tool_name>>), None),
          keys |-> keys, invoked |-> FALSE]
    ELSE IF outcome.raises
    THEN [sr |-> StepResult(step, FALSE, None, None, None),
          keys |-> keys, invoked |-> TRUE]
    ELSE [sr |-> StepResult(step, TRUE, Some(outcome.value), None, None),
          keys |-> keys \union {step.idempotency_key}, invoked |-> TRUE]

\* Mutant of _execute_step: the key is recorded before tool.execute is
\* awaited, so it stays recorded when the tool raises.
ExecuteStepKeyFirst(reg, keys, step, outcome, action_id) ==
    IF IdempotentSkip(keys, step)
    THEN [sr |-> StepResult(step, TRUE, Some([skipped |-> TRUE]), None, None),
          keys |-> keys, invoked |-> FALSE]
    ELSE IF step.execution_target = "device"
    THEN _build_device_action(keys, step, action_id)
    ELSE IF ToolMissing(reg, step.tool_name)
    THEN [sr |-> StepResult(step, FALSE, None, Some(<<"Unknown tool", step.tool_name>>), None),
          keys |-> keys, invoked |-> FALSE]
    ELSE IF outcome.raises
    THEN [sr |-> StepResult(step, FALSE, None, Some(outcome.message), None),
          keys |-> keys \union {step.idempotency_key}, invoked |-> TRUE]
    ELSE [sr |-> StepResult(step, TRUE, Some(outcome.value), None, None),
          keys |-> keys \union {step.idempotency_key}, invoked |-> TRUE]

\* Mutant of _execute_step: a step whose tool is not registered is passed
\* over as done.
ExecuteStepUnknownPassed(reg, keys, step, outcome, action_id) ==
    IF IdempotentSkip(keys, step)
    THEN [sr |-> StepResult(step, TRUE, Some([skipped |-> TRUE]), None, None),
          keys |-> keys, invoked |-> FALSE]
    ELSE IF step.execution_target = "device"
    THEN _build_device_action(keys, step, action_id)
    ELSE IF ToolMissing(reg, step.tool_name)
    THEN [sr |-> StepResult(step, TRUE, None, None, None),
          keys |-> keys \union {step.idempotency_key}, invoked |-> FALSE]
    ELSE IF outcome.raises
    THEN [sr |-> StepResult(step, FALSE, None, Some(outcome.message), None),
          keys |-> keys, invoked |-> TRUE]
    ELSE [sr |-> StepResult(step, TRUE, Some(outcome.value), None, None),
          keys |-> keys \union {step.idempotency_key}, invoked |-> TRUE]

\* Mutant of _execute_step: a device step is sent to the tool like a server step.
ExecuteStepNoDeviceBranch(reg, keys, step, outcome, action_id) ==
    IF IdempotentSkip(keys, step)
    THEN [sr |-> StepResult(step, TRUE, Some([skipped |-> TRUE]), None, None),
          keys |-> keys, invoked |-> FALSE]
    ELSE IF ToolMissing(reg, step.tool_name)
    THEN [sr |-> StepResult(step, FALSE, None, Some(<<"Unknown tool", step.tool_name>>), None),
          keys |-> keys, invoked |-> FALSE]
    ELSE IF outcome.raises
    THEN [sr |-> StepResult(step, FALSE, None, Some(outcome.message), None),
          keys |-> keys, invoked |-> TRUE]
    ELSE [sr |-> StepResult(step, TRUE, Some(outcome.value), None, None),
          keys |-> keys \union {step.idempotency_key}, invoked |-> TRUE]

\* Mutant of _execute_step: the tool is looked up before the device branch.
ExecuteStepLookupFirst(reg, keys, step, outcome, action_id) ==
    IF step.idempotency_key \in keys
    THEN [sr |-> StepResult(step, TRUE, Some([skipped |-> TRUE]), None, None),
          keys |-> keys, invoked |-> FALSE]
    ELSE IF step.tool_name \notin DOMAIN reg
    THEN [sr |-> StepResult(step, FALSE, None, Some(<<"Unknown tool", step.tool_name>>), None),
          keys |-> keys, invoked |-> FALSE]
    ELSE IF step.execution_target = "device"
    THEN _build_device_action(keys, step, action_id)
    ELSE IF outcome.raises
    THEN [sr |-> StepResult(step, FALSE, None, Some(outcome.message), None),
          keys |-> keys, invoked |-> TRUE]
    ELSE [sr |-> StepResult(step, TRUE, Some(outcome.value), None, None),
          keys |-> keys \union {step.idempotency_key}, invoked |-> TRUE]

\* One call of _execute_step, given what tool.execute does if it is awaited:
\* the StepResult, the executed-key set afterwards, and whether execute ran.
_execute_step(reg, keys, step, outcome, action_id) ==
    IF IdempotentSkip(keys, step)
    THEN [sr |-> StepResult(step, TRUE, Some([skipped |-> TRUE]), None, None),
          keys |-> keys, invoked |-> FALSE]
    ELSE IF step.execution_target = "device"
    THEN _build_device_action(keys, step, action_id)
    ELSE IF ToolMissing(reg, step.tool_name)
    THEN [sr |-> StepResult(step, FALSE, None, Some(<<"Unknown tool", step.tool_name>>), None),
          keys |-> keys, invoked |-> FALSE]
    ELSE IF outcome.raises
    THEN [sr |-> StepResult(step, FALSE, None, Some(outcome.message), None),
          keys |-> keys, invoked |-> TRUE]
    ELSE [sr |-> StepResult(step, TRUE, Some(outcome.value), None, None),
          keys |-> keys \union {step.idempotency_key}, invoked |-> TRUE]

\* Mutant of Deferred: execute_plan runs flagged steps too.
DeferredNever(mode, step) == FALSE

\* execute_plan: if step.requires_confirmation: continue
Deferred(mode, step) == mode = "now" /\ step.requires_confirmation

\* Mutant of BreaksLoop: the loop goes on after a failed step.
BreaksLoopNever(sr) == FALSE

\* if not sr.success: ... break
BreaksLoop(sr) == ~sr.success

(***************************************************************************)
(* Inputs of the executor specification: plans as a caller of the Executor *)
(* may build them (tests/test_executor.py builds steps field by field, so  *)
(* a step's target need not agree with the registry).                      *)
(***************************************************************************)
ExecKeys == {"k1", "k2"}

ExecTools ==
    { [tool_name |-> "google_calendar.create_event", execution_target |-> "server"],
      [tool_name |-> "ios_eventkit.create_event", execution_target |-> "device"],
      [tool_name |-> "unknown.tool", execution_target |-> "server"] }

\* A step of an unregistered tool comes unflagged.
ExecFlags(t) == IF t.tool_name = "unknown.tool" THEN {FALSE} ELSE BOOLEAN

ExecSteps ==
    UNION { { [tool_name |-> t.tool_name,
               args |-> [title |-> "Dentist"],
               risk_level |-> "low",
               requires_confirmation |-> rc,
               confirmation_phrase |-> NonePhrase,
               idempotency_key |-> k,
               execution_target |-> t.execution_target,
               tool_call_id |-> "tc1"] : k \in ExecKeys, rc \in ExecFlags(t) } :
            t \in ExecTools }

\* uuid.uuid4().hex of a DeviceAction: some identifier.
ActionIds == {"a1"}

(***************************************************************************)
(* Execution passes as the request handlers run them: a pass from its      *)
(* first step to its return, given what each step's tool.execute does.     *)
(***************************************************************************)
NewPass(keys) ==
    [result |-> NewExecutionResult, keys |-> keys, invoked |-> {}, handled |-> <<>>]

RECURSIVE RunFrom(_, _, _, _, _, _)
\* for step in plan.steps: [continue] / sr = await self._execute_step(...) /
\* result.add(sr) / break on failure
RunFrom(reg, steps, mode, outs, i, acc) ==
    IF i > Len(steps) THEN acc
    ELSE IF Deferred(mode, steps[i]) THEN RunFrom(reg, steps, mode, outs, i + 1, acc)
    ELSE LET r == _execute_step(reg, acc.keys, steps[i], outs[i], <<"action", i>>)
             next == [result |-> ResultAdd(acc.result, r.sr),
                      keys |-> r.keys,
                      invoked |-> IF r.invoked THEN acc.invoked \union {i} ELSE acc.invoked,
                      handled |-> Append(acc.handled, i)]
         IN IF BreaksLoop(r.sr) THEN next
            ELSE RunFrom(reg, steps, mode, outs, i + 1, next)

\* Executor().execute_plan(plan, context)
execute_plan(reg, steps, outs) == RunFrom(reg, steps, "now", outs, 1, NewPass({}))

\* Executor().execute_confirmed_plan(plan, context)
execute_confirmed_plan(reg, steps, outs) ==
    RunFrom(reg, steps, "confirmed", outs, 1, NewPass({}))

\* What the tools of a plan may do when executed, one outcome per step.
PlanOutcomes(reg, steps) ==
    { outs \in [DOMAIN steps -> {Return([event_id |-> "e1"]), Return(<<>>), Raise(<<"boom">>)}] :
        \A i \in DOMAIN steps :
            IF ~ToolMissing(reg, steps[i].tool_name) /\ steps[i].execution_target = "server"
            THEN outs[i] \in ToolOutcomes(reg, steps[i].tool_name)
            ELSE outs[i] = Return(<<>>) }

(***************************************************************************)
(* core/session_manager.py.  A turn keeps its role and the shape of its    *)
(* content: a string, or a list of blocks with their types and ids.        *)
(***************************************************************************)
TrimFallback == 4

StrContent == [kind |-> "str", blocks |-> <<>>]

ListContent(blocks) == [kind |-> "list", blocks |-> blocks]

\* Mutant of _is_plain_text: every turn counts as plain text.
IsPlainTextAlways(msg) == TRUE

\* SessionManager._is_plain_text
_is_plain_text(msg) ==
    \/ msg.content.kind = "str"
    \/ /\ msg.content.kind = "list"
       /\ \A b \in DOMAIN msg.content.blocks : msg.content.blocks[b].type = "text"

LastN(seq, n) == IF Len(seq) <= n THEN seq ELSE SubSeq(seq, Len(seq) - n + 1, Len(seq))

\* Mutant of _trim: the window is returned without walking forward.
TrimWindowOnly(messages) == LastN(messages, SessionMaxMessages)

\* SessionManager._trim
_trim(messages) ==
    IF Len(messages) <= SessionMaxMessages THEN messages
    ELSE LET trimmed == LastN(messages, SessionMaxMessages)
             plain == {i \in DOMAIN trimmed :
                          trimmed[i].role = "user" /\ _is_plain_text(trimmed[i])}
         IN IF plain = {} THEN LastN(trimmed, TrimFallback)
            ELSE LET start == CHOOSE i \in plain : \A j \in plain : i <= j
                 IN SubSeq(trimmed, start, Len(trimmed))

\* SessionManager.load: the stored turns, [] when the user has no record
SessionLoad(store, user) == IF user \in DOMAIN store THEN store[user].messages ELSE <<>>

\* Mutant of SessionSave: message_count is the number of turns handed in.
SessionSaveCountsAll(store, user, messages) ==
    LET row == [messages |-> _trim(messages), message_count |-> Len(messages)]
    IN [u \in DOMAIN store \union {user} |-> IF u = user THEN row ELSE store[u]]

\* SessionManager.save: upsert of the trimmed turns and their count
SessionSave(store, user, messages) ==
    LET trimmed == _trim(messages)
        row == [messages |-> trimmed, message_count |-> Len(trimmed)]
    IN [u \in DOMAIN store \union {user} |-> IF u = user THEN row ELSE store[u]]

\* Mutant of SessionClear: every record is deleted.
SessionClearAll(store, user) == <<>>

\* SessionManager.clear: the record is deleted if there is one
SessionClear(store, user) == [u \in DOMAIN store \ {user} |-> store[u]]

\* SessionManager.append_user_message
append_user_message(messages) ==
    Append(messages, [role |-> "user", content |-> StrContent])

\* SessionManager.append_assistant_response: the text block, if any, and
\* one tool_use block per tool call of the response
append_assistant_response(messages, response) ==
    Append(messages,
           [role |-> "assistant",
            content |-> ListContent(
                (IF response.text THEN <<[type |-> "text", id |-> <<>>]>> ELSE <<>>)
                \o [i \in DOMAIN response.tool_calls |->
                       [type |-> "tool_use", id |-> response.tool_calls[i].id]])])

\* SessionManager.append_tool_results
append_tool_results(messages, result_blocks) ==
    Append(messages, [role |-> "user", content |-> ListContent(result_blocks)])

(***************************************************************************)
(* api/command.py                                                          *)
(***************************************************************************)
Users == {"u1", "u2"}

\* The words delete, cancel, create and update that occur in a tool name.
NameWords(name) ==
    CASE name \in {"google_calendar.delete_event", "ios_eventkit.delete_event"} -> {"delete"}
      [] name \in {"ios_notifications.cancel"} -> {"cancel"}
      [] name \in {"google_calendar.create_event", "ios_eventkit.create_event"} -> {"create"}
      [] name \in {"google_calendar.update_event"} -> {"update"}
      [] name \in {"notes.create_or_delete"} -> {"create", "delete"}
      [] OTHER -> {}

\* word in name
Contains(name, word) == word \in NameWords(name)

\* "delete" in name or "cancel" in name
IsDeleteOrCancel(name) == Contains(name, "delete") \/ Contains(name, "cancel")

\* "create" in name or "update" in name
IsCreateOrUpdate(name) == Contains(name, "create") \/ Contains(name, "update")

\* Mutant of ExecutionTarget: the registry is not consulted.
ExecutionTargetServer(reg, name) == "server"

\* tool = get_tool(name); target = tool.execution_target if tool else "server"
ExecutionTarget(reg, name) ==
    IF ToolMissing(reg, name) THEN "server" ELSE reg[name].execution_target

\* Mutant of ToolCallToStep: no provisional flags, every step is low risk.
ToolCallToStepUnflagged(reg, tc, key) ==
    [tool_name |-> tc.name,
     args |-> tc.arguments,
     risk_level |-> "low",
     requires_confirmation |-> FALSE,
     confirmation_phrase |-> NonePhrase,
     idempotency_key |-> key,
     execution_target |-> IF ToolMissing(reg, tc.name) THEN "server"
                          ELSE reg[tc.name].execution_target,
     tool_call_id |-> tc.id]

\* Mutant of ToolCallToStep: a create/update step is flagged when its
\* attendees list is non-empty, not when the key is present.
ToolCallToStepTruthyAttendees(reg, tc, key) ==
    LET name == tc.name
        args == tc.arguments
        confirm == IF IsDeleteOrCancel(name) THEN TRUE
                   ELSE IF IsCreateOrUpdate(name)
                        THEN DictGet(args, "attendees", <<>>) # <<>>
                        ELSE FALSE
    IN [tool_name |-> name,
        args |-> args,
        risk_level |-> IF IsDeleteOrCancel(name) THEN "high"
                       ELSE IF IsCreateOrUpdate(name) THEN "medium" ELSE "low",
        requires_confirmation |-> confirm,
        confirmation_phrase |->
            IF IsDeleteOrCancel(name) THEN Str(<<"Delete/cancel via", name, "confirm?">>)
            ELSE IF IsCreateOrUpdate(name) /\ confirm
                 THEN Str(<<"Modify via", name, "confirm?">>)
                 ELSE NonePhrase,
        idempotency_key |-> key,
        execution_target |-> ExecutionTarget(reg, name),
        tool_call_id |-> tc.id]

\* One ToolCall becomes one ActionStep; its idempotency_key is a fresh uuid,
\* here the pair of the plan and the position.
ToolCallToStep(reg, tc, key) ==
    LET name == tc.name
        args == tc.arguments
        confirm == IF IsDeleteOrCancel(name) THEN TRUE
                   ELSE IF IsCreateOrUpdate(name) THEN "attendees" \in DOMAIN args
                   ELSE FALSE
    IN [tool_name |-> name,
        args |-> args,
        risk_level |-> IF IsDeleteOrCancel(name) THEN "high"
                       ELSE IF IsCreateOrUpdate(name) THEN "medium" ELSE "low",
        requires_confirmation |-> confirm,
        confirmation_phrase |->
            IF IsDeleteOrCancel(name) THEN Str(<<"Delete/cancel via", name, "confirm?">>)
            ELSE IF IsCreateOrUpdate(name) /\ confirm
                 THEN Str(<<"Modify via", name, "confirm?">>)
                 ELSE NonePhrase,
        idempotency_key |-> key,
        execution_target |-> ExecutionTarget(reg, name),
        tool_call_id |-> tc.id]

_tool_calls_to_steps(reg, tool_calls, plan_id) ==
    [i \in DOMAIN tool_calls |-> ToolCallToStep(reg, tool_calls[i], <<plan_id, i>>)]

\* Mutant of PlanNeedsConfirmation: all() in place of any().
PlanNeedsConfirmationAll(steps) ==
    steps # <<>> /\ \A i \in DOMAIN steps : steps[i].requires_confirmation

\* handle_command: if plan.needs_confirmation
PlanNeedsConfirmation(steps) == needs_confirmation(steps)

\* tool_result blocks: for tc, sr in zip(tool_calls, step_results)
ResultBlocks(tool_call_ids, step_results) ==
    [j \in 1..(IF Len(tool_call_ids) < Len(step_results)
               THEN Len(tool_call_ids) ELSE Len(step_results)) |->
        [type |-> "tool_result", id |-> tool_call_ids[j]]]

\* _llm_summarize_anthropic: the turns after the tool results and the
\* follow-up answer are appended
_llm_summarize_anthropic(messages, tool_call_ids, step_results, follow_up) ==
    append_assistant_response(
        append_tool_results(messages, ResultBlocks(tool_call_ids, step_results)),
        follow_up)

\* Steps for which verify_server_step is called.
VerifiedSteps(pass) ==
    {pass.handled[j] : j \in
        {j \in DOMAIN pass.handled :
            LET sr == pass.result.step_results[j]
            IN /\ sr.success
               /\ ~sr.result.none /\ sr.result.value # <<>>
               /\ sr.step.execution_target = "server"}}

\* _audit: one AuditLog row per StepResult
AuditRows(user, plan_id, pass) ==
    [j \in DOMAIN pass.result.step_results |->
        LET sr == pass.result.step_results[j]
        IN [user_id |-> user, plan_id |-> plan_id, tool_name |-> sr.step.tool_name,
            status |-> IF sr.success THEN "ok" ELSE "error"]]

\* What verify_server_step does when it is called: it returns a match, it
\* returns a mismatch, or tool.verify raises (nothing catches it).
VerifyOutcomes == {"match", "mismatch", "raise"}

\* The tools that override BaseTool.verify with a read-back through the
\* calendar client; every other tool keeps the default, which returns a
\* match without doing anything.
ReadsBack == {"google_calendar.create_event", "google_calendar.update_event"}

\* The positions in step_results for which verify_server_step is called if
\* the loop gets there.
VerifyCandidates(pass) ==
    {j \in DOMAIN pass.result.step_results :
        LET sr == pass.result.step_results[j]
        IN /\ sr.success
           /\ ~sr.result.none /\ sr.result.value # <<>>
           /\ sr.step.execution_target = "server"}

\* One outcome per call of verify_server_step; a position where it is not
\* called, whose tool keeps the default verify, or that lies behind a raise,
\* is given "match".
VerifyOutcomeMaps(pass) ==
    { vouts \in [DOMAIN pass.result.step_results -> VerifyOutcomes] :
        \A j \in DOMAIN vouts :
            (\/ j \notin VerifyCandidates(pass)
             \/ pass.result.step_results[j].step.tool_name \notin ReadsBack
             \/ \E k \in 1..(j - 1) : vouts[k] = "raise") => vouts[j] = "match" }

\* The position at which the verify/audit loop is left by an exception, 0
\* if it runs to its end.
RaisedAt(pass, vouts) ==
    LET raising == {j \in VerifyCandidates(pass) : vouts[j] = "raise"}
    IN IF raising = {} THEN 0
       ELSE CHOOSE j \in raising : \A k \in raising : j <= k

\* for sr in exec_result.step_results: [await verify_server_step(...)];
\* await _audit(...): the calls of verify_server_step with what they
\* yielded, the audit rows written, and whether the loop raised
VerifyAndAudit(user, plan_id, pass, vouts) ==
    LET stop == RaisedAt(pass, vouts)
        reached == {j \in VerifyCandidates(pass) : stop = 0 \/ j <= stop}
        rows == AuditRows(user, plan_id, pass)
    IN [verified |-> {pass.handled[j] : j \in reached},
        audits |-> IF stop = 0 THEN rows ELSE SubSeq(rows, 1, stop - 1),
        raised |-> stop # 0]

\* Mutant of PendingPop: the entry is read, not removed.
PendingPopKeeps(store, plan_id) == store

\* Mutant of PendingPop: the whole store is emptied.
PendingPopAll(store, plan_id) == <<>>

\* _pending_plans.pop(body.plan_id, None): the store afterwards
PendingPop(store, plan_id) == [p \in DOMAIN store \ {plan_id} |-> store[p]]

\* Mutant of NotOwner: the owner check is missing.
NotOwnerNever(owner_id, user) == FALSE

\* if owner_id != str(user.id)
NotOwner(owner_id, user) == owner_id # user

(***************************************************************************)
(* core/verifier.py and POST /command/device-result                        *)
(***************************************************************************)
\* VerificationResult(matched, discrepancies)
VerificationResult(matched, discrepancies) ==
    [matched |-> matched, discrepancies |-> discrepancies]

\* Mutant of verify_device_result: every report is trusted.
VerifyDeviceTrusting(device_result) == VerificationResult(TRUE, <<>>)

\* verify_device_result: error or 'unknown error' takes the default for an
\* error that is None or empty
verify_device_result(device_result) ==
    IF ~device_result.success
    THEN VerificationResult(FALSE,
            << <<"Device execution failed">>
               \o (IF device_result.error.none \/ device_result.error.value = <<>>
                   THEN <<"unknown error">>
                   ELSE device_result.error.value) >>)
    ELSE VerificationResult(TRUE, <<>>)

RECURSIVE AllMatched(_)
\* all(v["matched"] for v in verifications)
AllMatched(verifications) ==
    IF verifications = <<>> THEN TRUE
    ELSE Head(verifications).matched /\ AllMatched(Tail(verifications))

\* report_device_result: the response and the audit rows written
report_device_result(user, plan_id, results) ==
    LET verifications ==
            [i \in DOMAIN results |->
                LET v == verify_device_result(results[i])
                IN [action_id |-> results[i].action_id, matched |-> v.matched,
                    discrepancies |-> v.discrepancies]]
    IN [status |-> IF AllMatched(verifications) THEN "verified" ELSE "partial_failure",
        verifications |-> verifications,
        audits |-> [i \in DOMAIN results |->
                      [user_id |-> user, plan_id |-> plan_id,
                       tool_name |-> <<"device", results[i].action_id>>,
                       status |-> IF results[i].success THEN "ok" ELSE "error"]]]

(***************************************************************************)
(* Inputs of the API specification: what the LLM may answer.               *)
(***************************************************************************)
ListCall == [name |-> "google_calendar.list_events", arguments |-> <<>>]

DeleteCall == [name |-> "google_calendar.delete_event", arguments |-> <<>>]

DeviceCall == [name |-> "ios_eventkit.create_event", arguments |-> <<>>]

NotifyCall == [name |-> "google_calendar.update_event",
               arguments |-> [send_updates |-> "all"]]

CancelCall == [name |-> "ios_notifications.cancel", arguments |-> <<>>]

\* The tool calls of one response: nothing, or up to two of ListCall, DeleteCall and
\* DeviceCall in either order, or NotifyCall alone or next to ListCall, or
\* CancelCall alone or after ListCall.
LLMCallLists ==
    { calls \in UNION {[1..k -> {ListCall, DeleteCall, DeviceCall}] : k \in 0..2} :
        \A i, j \in DOMAIN calls : i # j => calls[i] # calls[j] }
    \union { <<NotifyCall>>, <<ListCall, NotifyCall>>, <<NotifyCall, ListCall>>,
             <<CancelCall>>, <<ListCall, CancelCall>> }

WithIds(calls) ==
    [i \in DOMAIN calls |->
        [id |-> <<"toolu", i>>, name |-> calls[i].name, arguments |-> calls[i].arguments]]

\* A response of llm.chat: text alone, nothing at all, or tool calls with
\* provider-assigned ids.
LLMResponses ==
    { [text |-> TRUE, tool_calls |-> <<>>] }
    \union { [text |-> FALSE, tool_calls |-> WithIds(calls)] : calls \in LLMCallLists }

\* A response of llm.follow_up.
FollowUps == { [text |-> TRUE, tool_calls |-> <<>>] }

VARIABLES pol_plan, pol_before, pol_runs

VARIABLES
    registry,        \* tools/registry.py _REGISTRY
    executed_keys,   \* Executor._executed_keys
    ex_plan,         \* the steps of the plan of the current pass
    ex_mode,         \* "now" (execute_plan) or "confirmed" (execute_confirmed_plan)
    ex_i,            \* position of the for loop: index of the next step
    ex_pc,           \* "idle", "loop", "await" (inside await tool.execute), "break"
    ex_result,       \* the pass's ExecutionResult
    ex_trace,        \* per StepResult: the step's index, whether its key was
                     \* already executed when _execute_step was entered, and
                     \* the message of the exception tool.execute raised, if any
    ex_invoked,      \* indices of the pass's steps on which tool.execute was awaited
    exec_ok,         \* per key: how often tool.execute returned successfully
    dev_emitted      \* per key: how many DeviceActions were built

VARIABLES
    provider,        \* settings.llm_provider
    pending,         \* api/command.py _pending_plans
    sessions,        \* the chat_sessions table: user -> row
    next_plan,       \* the next fresh plan_id (uuid4)
    requests,        \* requests handled so far
    plan_user,       \* per plan created: the user whose /command created it
    consumed,        \* per plan_id: confirm requests that found its entry
    last             \* the request handled last: what it did and answered

VARIABLES
    sm_messages,     \* the turns handed to SessionManager.save
    pl_tool_calls,   \* the tool calls handed to _tool_calls_to_steps
    pl_steps,        \* the steps it returned
    pl_done,         \* whether it has returned
    ap_steps,        \* the steps of an ActionPlan
    ap_read,         \* its needs_confirmation and max_risk as last read
    dr_results,      \* body.results of a POST /command/device-result
    dr_response,     \* its response and the audit rows it wrote
    rg_log,          \* the tools handed to register_tool so far, in order
    rg_lookup,       \* the last get_tool: its name, what it returned and when
    pp_raw,          \* what the LLM answers to Planner.plan's first call
    pp_raw_retry,    \* what it answers to the retry, if asked
    pp_result,       \* how Planner.plan ended and the LLM calls it made
    sm_loaded,       \* what SessionManager.load returned after the save
    st_step,         \* the step handed to one call of Executor._execute_step
    st_keys,         \* the executed keys when it is called
    st_outcome,      \* what tool.execute does if it is awaited
    st_result,       \* what the call returned and left behind
    cf_users,        \* concurrent confirm requests: the user of each
    cf_pc,           \* where each request's handler stands
    cf_entry,        \* the pending entry each request obtained, if any
    cf_pass,         \* each request's Executor pass so far
    cf_i,            \* the step each request's pass is at
    cf_status,       \* each request's response status, 0 while it runs
    cf_runs,         \* per step of the plan: executions and delegations so far
    cr_users,        \* concurrent /command requests: the user of each
    cr_pc,           \* where each request's handler stands
    cr_messages,     \* session_messages of each request
    cr_added,        \* the turns each request appended and saved
    cr_start         \* the stored conversations before the requests

polVars == <<pol_plan, pol_before, pol_runs>>

exVars == <<executed_keys, ex_plan, ex_mode, ex_i, ex_pc, ex_result,
            ex_trace, ex_invoked, exec_ok, dev_emitted>>

apiVars == <<provider, pending, sessions, next_plan, requests, plan_user, consumed, last>>

plVars == <<pl_tool_calls, pl_steps, pl_done>>

apVars == <<ap_steps, ap_read>>

drVars == <<dr_results, dr_response>>

rgVars == <<rg_log, rg_lookup>>

\* The variables of the specifications of single modules that follow
\* SpecDeviceResult.
ppVars == <<pp_raw, pp_raw_retry, pp_result>>

stVars == <<st_step, st_keys, st_outcome, st_result>>

\* The variables of the specifications that follow SpecPlanRetry.
cfVars == <<cf_users, cf_pc, cf_entry, cf_pass, cf_i, cf_status, cf_runs>>

crVars == <<cr_users, cr_pc, cr_messages, cr_added, cr_start>>

lateVars == <<stVars, cfVars, crVars>>

auxVars == <<rgVars, ppVars, sm_loaded, lateVars>>

callVars == <<sm_messages, plVars, apVars, drVars, auxVars>>

vars == <<polVars, registry, exVars, apiVars, callVars>>

SessionIdle == sm_messages = <<>>

PlannerIdle ==
    /\ pl_tool_calls = <<>>
    /\ pl_steps = <<>>
    /\ pl_done = FALSE

PlanIdle ==
    /\ ap_steps = <<>>
    /\ ap_read = None

DeviceResultIdle ==
    /\ dr_results = <<>>
    /\ dr_response = None

RegistryIdle ==
    /\ rg_log = <<>>
    /\ rg_lookup = None

PlanRetryIdle ==
    /\ pp_raw = <<>>
    /\ pp_raw_retry = <<>>
    /\ pp_result = None

LoadIdle == sm_loaded = None

StepIdle ==
    /\ st_step = <<>>
    /\ st_keys = {}
    /\ st_outcome = <<>>
    /\ st_result = None

ConfirmRaceIdle ==
    /\ cf_users = <<>>
    /\ cf_pc = <<>>
    /\ cf_entry = <<>>
    /\ cf_pass = <<>>
    /\ cf_i = <<>>
    /\ cf_status = <<>>
    /\ cf_runs = <<>>

CommandRaceIdle ==
    /\ cr_users = <<>>
    /\ cr_pc = <<>>
    /\ cr_messages = <<>>
    /\ cr_added = <<>>
    /\ cr_start = <<>>

LateIdle ==
    /\ StepIdle
    /\ ConfirmRaceIdle
    /\ CommandRaceIdle

AuxIdle ==
    /\ RegistryIdle
    /\ PlanRetryIdle
    /\ LoadIdle
    /\ LateIdle

CallIdle ==
    /\ SessionIdle
    /\ PlannerIdle
    /\ PlanIdle
    /\ DeviceResultIdle
    /\ AuxIdle

PolicyIdle ==
    /\ pol_plan = <<>>
    /\ pol_before = <<>>
    /\ pol_runs = 0

ExecutorIdle ==
    /\ executed_keys = {}
    /\ ex_plan = <<>>
    /\ ex_mode = "now"
    /\ ex_i = 1
    /\ ex_pc = "idle"
    /\ ex_result = NewExecutionResult
    /\ ex_trace = <<>>
    /\ ex_invoked = {}
    /\ exec_ok = [k \in ExecKeys |-> 0]
    /\ dev_emitted = [k \in ExecKeys |-> 0]

PlanIds == 1..(MaxPlans + 1)

NoRequest ==
    [kind |-> "none", user |-> "u1", calls |-> 0, plan_id |-> 0, status |-> 200,
     found |-> FALSE, created |-> <<>>,
     owner |-> "u1", steps |-> <<>>, pass |-> NewPass({}), verified |-> {},
     audits |-> <<>>, requires_confirmation |-> FALSE, response_plan_id |-> None,
     device_actions |-> <<>>]

ApiIdle ==
    /\ provider = "openai"
    /\ pending = <<>>
    /\ sessions = <<>>
    /\ next_plan = 1
    /\ requests = 0
    /\ plan_user = <<>>
    /\ consumed = [p \in PlanIds |-> 0]
    /\ last = NoRequest

(***************************************************************************)
(* SpecPolicy                                                              *)
(***************************************************************************)
PolicyInit ==
    /\ pol_plan \in SeqsUpTo(PolicySteps, MaxPolicySteps)
    /\ pol_before = pol_plan
    /\ pol_runs = 0
    /\ registry = StartupRegistry
    /\ ExecutorIdle
    /\ ApiIdle
    /\ CallIdle

\* One call of evaluate(plan) on the plan object.
Evaluate ==
    /\ pol_runs < 2
    /\ pol_before' = pol_plan
    /\ pol_plan' = evaluate(pol_plan)
    /\ pol_runs' = pol_runs + 1
    /\ UNCHANGED <<registry, exVars, apiVars, callVars>>

PolicyNext == Evaluate

SpecPolicy == PolicyInit /\ [][PolicyNext]_vars

(***************************************************************************)
(* SpecExecutor: one Executor, constructed with some executed_keys, runs   *)
(* passes one after the other.                                             *)
(***************************************************************************)
ExecutorInit ==
    /\ PolicyIdle
    /\ ApiIdle
    /\ CallIdle
    /\ registry = StartupRegistry
    /\ executed_keys \in SUBSET ExecKeys          \* Executor(executed_keys=...)
    /\ ex_plan = <<>>
    /\ ex_mode = "now"
    /\ ex_i = 1
    /\ ex_pc = "idle"
    /\ ex_result = NewExecutionResult
    /\ ex_trace = <<>>
    /\ ex_invoked = {}
    /\ exec_ok = [k \in ExecKeys |-> 0]
    /\ dev_emitted = [k \in ExecKeys |-> 0]

\* execute_plan(plan, context) / execute_confirmed_plan(plan, context) is called.
StartPass(steps, mode) ==
    /\ ex_pc = "idle"
    /\ ex_plan' = steps
    /\ ex_mode' = mode
    /\ ex_i' = 1
    /\ ex_pc' = "loop"
    /\ UNCHANGED <<executed_keys, ex_result, ex_trace, ex_invoked, exec_ok, dev_emitted>>

\* execute_plan: a step flagged requires_confirmation is passed over.
SkipDeferred ==
    /\ ex_pc = "loop"
    /\ ex_i <= Len(ex_plan)
    /\ Deferred(ex_mode, ex_plan[ex_i])
    /\ ex_i' = ex_i + 1
    /\ UNCHANGED <<executed_keys, ex_plan, ex_mode, ex_pc, ex_result,
                   ex_trace, ex_invoked, exec_ok, dev_emitted>>

\* sr = await self._execute_step(step, context); result.add(sr); break on failure.
Resolve(outcome, action_id) ==
    LET step == ex_plan[ex_i]
        key == step.idempotency_key
        r == _execute_step(registry, executed_keys, step, outcome, action_id)
    IN /\ executed_keys' = r.keys
       /\ ex_result' = ResultAdd(ex_result, r.sr)
       /\ ex_trace' = Append(ex_trace,
                             [idx |-> ex_i, pre |-> key \in executed_keys,
                              raised |-> IF outcome.raises THEN Some(outcome.message)
                                         ELSE None])
       /\ ex_invoked' = IF r.invoked THEN ex_invoked \union {ex_i} ELSE ex_invoked
       /\ exec_ok' = IF r.invoked /\ r.sr.success
                     THEN [exec_ok EXCEPT ![key] = @ + 1] ELSE exec_ok
       /\ dev_emitted' = IF ~r.sr.device_action.none
                         THEN [dev_emitted EXCEPT ![key] = @ + 1] ELSE dev_emitted
       /\ ex_i' = ex_i + 1
       /\ ex_pc' = IF BreaksLoop(r.sr) THEN "break" ELSE "loop"
       /\ UNCHANGED <<ex_plan, ex_mode>>

\* _execute_step reaches await tool.execute(step.args, context).
InvokeTool ==
    /\ ex_pc = "loop"
    /\ ex_i <= Len(ex_plan)
    /\ ~Deferred(ex_mode, ex_plan[ex_i])
    /\ Invokes(registry, executed_keys, ex_plan[ex_i])
    /\ ex_pc' = "await"
    /\ UNCHANGED <<executed_keys, ex_plan, ex_mode, ex_i, ex_result,
                   ex_trace, ex_invoked, exec_ok, dev_emitted>>

\* tool.execute returns or raises, and _execute_step finishes.
ToolReturns ==
    /\ ex_pc = "await"
    /\ \E outcome \in ToolOutcomes(registry, ex_plan[ex_i].tool_name) :
          Resolve(outcome, "a1")

\* _execute_step returns without awaiting a tool: skip, DeviceAction, unknown tool.
StepWithoutTool ==
    /\ ex_pc = "loop"
    /\ ex_i <= Len(ex_plan)
    /\ ~Deferred(ex_mode, ex_plan[ex_i])
    /\ ~Invokes(registry, executed_keys, ex_plan[ex_i])
    /\ \E action_id \in ActionIds : Resolve(Return(<<>>), action_id)

\* The pass is over (the loop is exhausted or was left by break) and its
\* ExecutionResult is complete.
PassDone == (ex_pc = "loop" /\ ex_i > Len(ex_plan)) \/ ex_pc = "break"

\* return result: the result goes to the caller, the Executor keeps only
\* its executed keys.
PassReturns ==
    /\ PassDone
    /\ ex_plan' = <<>>
    /\ ex_mode' = "now"
    /\ ex_i' = 1
    /\ ex_pc' = "idle"
    /\ ex_result' = NewExecutionResult
    /\ ex_trace' = <<>>
    /\ ex_invoked' = {}
    /\ UNCHANGED <<executed_keys, exec_ok, dev_emitted>>

ExecutorNext ==
    /\ UNCHANGED <<polVars, registry, apiVars, callVars>>
    /\ \/ /\ ex_pc = "idle"
          /\ \E steps \in SeqsUpTo(ExecSteps, MaxPlanSteps), mode \in {"now", "confirmed"} :
                StartPass(steps, mode)
       \/ SkipDeferred
       \/ InvokeTool
       \/ ToolReturns
       \/ StepWithoutTool
       \/ PassReturns

SpecExecutor == ExecutorInit /\ [][ExecutorNext]_vars

(***************************************************************************)
(* SpecApi: requests to /command, /command/confirm and                     *)
(* /command/session/clear, handled one after the other.                    *)
(***************************************************************************)
ApiInit ==
    /\ PolicyIdle
    /\ ExecutorIdle
    /\ CallIdle
    /\ registry = StartupRegistry
    /\ provider \in {"openai", "anthropic"}
    /\ pending = <<>>
    /\ sessions = <<>>
    /\ next_plan = 1
    /\ requests = 0
    /\ plan_user = <<>>
    /\ consumed = [p \in PlanIds |-> 0]
    /\ last = NoRequest

use_anthropic == provider = "anthropic"

\* handle_command steps 1-2: the turns after load, the user turn and the
\* assistant turn ([] throughout for the OpenAI provider)
TrackedMessages(user, response) ==
    IF use_anthropic
    THEN append_assistant_response(append_user_message(SessionLoad(sessions, user)), response)
    ELSE <<>>

ToolCallIds(tool_calls) == [i \in DOMAIN tool_calls |-> tool_calls[i].id]

\* confirm_plan: ToolCall(id=step.tool_call_id or step.idempotency_key, ...)
SyntheticToolCallIds(steps) == [i \in DOMAIN steps |-> steps[i].tool_call_id]

\* Mutant of NoToolCalls: the conversational branch is never taken.
NoToolCallsNever(response) == FALSE

\* if not response.tool_calls
NoToolCalls(response) == response.tool_calls = <<>>

\* handle_command, step 3: the response carries no tool calls.
CommandChat(user, response) ==
    /\ NoToolCalls(response)
    /\ sessions' = IF use_anthropic
                   THEN SessionSave(sessions, user, TrackedMessages(user, response))
                   ELSE sessions
    /\ last' = [NoRequest EXCEPT !.kind = "command", !.user = user,
                                 !.calls = Len(response.tool_calls)]
    /\ UNCHANGED <<pending, next_plan, plan_user, consumed>>

\* handle_command, step 6: the evaluated plan needs confirmation.
CommandDefer(user, response) ==
    \E plan_id \in {next_plan} :
    \E steps \in {evaluate(_tool_calls_to_steps(registry, response.tool_calls, plan_id))} :
    \E messages \in {TrackedMessages(user, response)} :
       /\ ~NoToolCalls(response)
       /\ plan_id <= MaxPlans
       /\ PlanNeedsConfirmation(steps)
       /\ pending' = [p \in DOMAIN pending \union {plan_id} |->
                        IF p = plan_id
                        THEN [plan |-> steps, owner |-> user, session_messages |-> messages]
                        ELSE pending[p]]
       /\ sessions' = IF use_anthropic THEN SessionSave(sessions, user, messages)
                      ELSE sessions
       /\ next_plan' = plan_id + 1
       /\ plan_user' = [p \in DOMAIN plan_user \union {plan_id} |->
                          IF p = plan_id THEN user ELSE plan_user[p]]
       /\ last' = [NoRequest EXCEPT !.kind = "command", !.user = user,
                                    !.calls = Len(response.tool_calls),
                                    !.created = _tool_calls_to_steps(registry,
                                                    response.tool_calls, plan_id),
                                    !.plan_id = plan_id, !.steps = steps,
                                    !.requires_confirmation = TRUE,
                                    !.response_plan_id = Some(plan_id)]
       /\ UNCHANGED consumed

\* handle_command, steps 7-8: execute now, verify, audit, summarise.
CommandExecute(user, response) ==
    \E plan_id \in {next_plan} :
    \E steps \in {evaluate(_tool_calls_to_steps(registry, response.tool_calls, plan_id))} :
    \E messages \in {TrackedMessages(user, response)} :
       /\ ~NoToolCalls(response)
       /\ plan_id <= MaxPlans
       /\ ~PlanNeedsConfirmation(steps)
       /\ \E outs \in PlanOutcomes(registry, steps), follow_up \in FollowUps :
             \E pass \in {execute_plan(registry, steps, outs)} :
             \E vouts \in VerifyOutcomeMaps(pass) :
             \E post \in {VerifyAndAudit(user, plan_id, pass, vouts)} :
                /\ sessions' =
                      IF use_anthropic /\ ~post.raised
                      THEN SessionSave(sessions, user,
                              _llm_summarize_anthropic(messages,
                                  ToolCallIds(response.tool_calls),
                                  pass.result.step_results, follow_up))
                      ELSE sessions
                /\ last' = [NoRequest EXCEPT !.kind = "command", !.user = user,
                                             !.calls = Len(response.tool_calls),
                                             !.created = _tool_calls_to_steps(registry,
                                                             response.tool_calls, plan_id),
                                             !.plan_id = plan_id, !.steps = steps,
                                             !.pass = pass,
                                             !.status = IF post.raised THEN 500 ELSE 200,
                                             !.verified = post.verified,
                                             !.audits = post.audits,
                                             !.response_plan_id =
                                                 IF post.raised THEN None ELSE Some(plan_id),
                                             !.device_actions =
                                                 IF post.raised THEN <<>>
                                                 ELSE pass.result.device_actions]
       /\ next_plan' = plan_id + 1
       /\ plan_user' = [p \in DOMAIN plan_user \union {plan_id} |->
                          IF p = plan_id THEN user ELSE plan_user[p]]
       /\ UNCHANGED <<pending, consumed>>

\* POST /command
handle_command ==
    /\ requests < MaxRequests
    /\ requests' = requests + 1
    /\ \E user \in Users, response \in LLMResponses :
          \/ CommandChat(user, response)
          \/ CommandDefer(user, response)
          \/ CommandExecute(user, response)
    /\ UNCHANGED provider

\* confirm_plan: no entry under the plan_id -> 404.
ConfirmNotFound(user, plan_id) ==
    /\ plan_id \notin DOMAIN pending
    /\ pending' = PendingPop(pending, plan_id)
    /\ last' = [NoRequest EXCEPT !.kind = "confirm", !.user = user, !.plan_id = plan_id,
                                 !.status = 404]
    /\ UNCHANGED <<sessions, consumed>>

\* confirm_plan: the entry was popped, the caller is not its owner -> 403.
ConfirmForbidden(user, plan_id) ==
    /\ plan_id \in DOMAIN pending
    /\ NotOwner(pending[plan_id].owner, user)
    /\ pending' = PendingPop(pending, plan_id)
    /\ consumed' = [consumed EXCEPT ![plan_id] = @ + 1]
    /\ last' = [NoRequest EXCEPT !.kind = "confirm", !.user = user, !.plan_id = plan_id,
                                 !.status = 403, !.found = TRUE,
                                 !.owner = pending[plan_id].owner,
                                 !.steps = pending[plan_id].plan]
    /\ UNCHANGED sessions

\* confirm_plan: the entry was popped and the caller owns it: execute every
\* step, verify, audit, summarise.
ConfirmExecute(user, plan_id) ==
    /\ plan_id \in DOMAIN pending
    /\ ~NotOwner(pending[plan_id].owner, user)
    /\ pending' = PendingPop(pending, plan_id)
    /\ consumed' = [consumed EXCEPT ![plan_id] = @ + 1]
    /\ LET entry == pending[plan_id]
           steps == entry.plan
       IN \E outs \in PlanOutcomes(registry, steps), follow_up \in FollowUps :
             \E pass \in {execute_confirmed_plan(registry, steps, outs)} :
             \E vouts \in VerifyOutcomeMaps(pass) :
             \E post \in {VerifyAndAudit(user, plan_id, pass, vouts)} :
                /\ sessions' =
                      IF /\ use_anthropic /\ ~post.raised
                         /\ steps # <<>> /\ pass.result.step_results # <<>>
                      THEN SessionSave(sessions, user,
                              _llm_summarize_anthropic(entry.session_messages,
                                  SyntheticToolCallIds(steps),
                                  pass.result.step_results, follow_up))
                      ELSE sessions
                /\ last' = [NoRequest EXCEPT !.kind = "confirm", !.user = user,
                                             !.plan_id = plan_id, !.found = TRUE,
                                             !.owner = entry.owner, !.steps = steps,
                                             !.pass = pass,
                                             !.status = IF post.raised THEN 500 ELSE 200,
                                             !.verified = post.verified,
                                             !.audits = post.audits,
                                             !.response_plan_id =
                                                 IF post.raised THEN None ELSE Some(plan_id),
                                             !.device_actions =
                                                 IF post.raised THEN <<>>
                                                 ELSE pass.result.device_actions]

\* POST /command/confirm
confirm_plan ==
    /\ requests < MaxRequests
    /\ requests' = requests + 1
    /\ \E user \in Users, plan_id \in PlanIds :
          \/ ConfirmNotFound(user, plan_id)
          \/ ConfirmForbidden(user, plan_id)
          \/ ConfirmExecute(user, plan_id)
    /\ UNCHANGED <<provider, next_plan, plan_user>>

\* POST /command/session/clear
clear_session ==
    /\ requests < MaxRequests
    /\ requests' = requests + 1
    /\ \E user \in Users :
          /\ sessions' = SessionClear(sessions, user)
          /\ last' = [NoRequest EXCEPT !.kind = "clear", !.user = user,
                                       !.found = user \in DOMAIN sessions]
    /\ UNCHANGED <<provider, pending, next_plan, plan_user, consumed>>

\* A device's report of one action that succeeded.
ReportedOk == <<[action_id |-> "a1", success |-> TRUE, error |-> None]>>

\* POST /command/device-result among the other requests: the results are
\* verified and audited; neither the pending store nor a conversation is
\* read or written.
device_result ==
    /\ requests < MaxRequests
    /\ requests' = requests + 1
    /\ \E user \in Users, plan_id \in PlanIds :
          last' = [NoRequest EXCEPT !.kind = "device_result", !.user = user,
                                    !.plan_id = plan_id,
                                    !.audits = report_device_result(user, plan_id,
                                                                    ReportedOk).audits]
    /\ UNCHANGED <<provider, pending, sessions, next_plan, plan_user, consumed>>

ApiNext ==
    /\ UNCHANGED <<polVars, registry, exVars, callVars>>
    /\ \/ handle_command
       \/ confirm_plan
       \/ clear_session
       \/ device_result

SpecApi == ApiInit /\ [][ApiNext]_vars

(***************************************************************************)
(* SpecSession: SessionManager(db, "u1").save(messages) on a conversation  *)
(* of any shape.                                                           *)
(***************************************************************************)
TextBlock == [type |-> "text", id |-> <<>>]

\* The turns of a conversation: plain user text as a string or as a text
\* block, tool results, an assistant answer, an assistant tool call.
Turns ==
    { [role |-> "user", content |-> StrContent],
      [role |-> "user", content |-> ListContent(<<TextBlock>>)],
      [role |-> "user",
       content |-> ListContent(<<[type |-> "tool_result", id |-> <<"toolu", 1>>]>>)],
      [role |-> "assistant", content |-> ListContent(<<TextBlock>>)],
      [role |-> "assistant",
       content |-> ListContent(<<[type |-> "tool_use", id |-> <<"toolu", 1>>]>>)] }

SessionInit ==
    /\ PolicyIdle
    /\ ExecutorIdle
    /\ registry = StartupRegistry
    /\ ApiIdle
    /\ PlannerIdle
    /\ PlanIdle
    /\ DeviceResultIdle
    /\ AuxIdle
    /\ sm_messages \in SeqsUpTo(Turns, MaxTurns)

\* await sm.save(messages)
Save ==
    /\ "u1" \notin DOMAIN sessions
    /\ sessions' = SessionSave(sessions, "u1", sm_messages)
    /\ UNCHANGED <<polVars, registry, exVars, callVars,
                   provider, pending, next_plan, requests, plan_user, consumed, last>>

\* await sm.load(), after the save
Load ==
    /\ "u1" \in DOMAIN sessions
    /\ sm_loaded = None
    /\ sm_loaded' = Some(SessionLoad(sessions, "u1"))
    /\ UNCHANGED <<polVars, registry, exVars, apiVars, sm_messages, plVars, apVars,
                   drVars, rgVars, ppVars, lateVars>>

SessionNext == Save \/ Load

SpecSession == SessionInit /\ [][SessionNext]_vars

(***************************************************************************)
(* SpecPlanner: _tool_calls_to_steps(response.tool_calls) on the tool      *)
(* calls of any response.                                                  *)
(***************************************************************************)
PlannerNames ==
    {"google_calendar.list_events", "google_calendar.delete_event",
     "ios_notifications.cancel", "google_calendar.create_event",
     "google_calendar.update_event", "ios_eventkit.create_event",
     "notes.create_or_delete"}

PlannerArgs == { <<>>, [attendees |-> <<>>], [attendees |-> <<"ann@x">>] }

PlannerCalls == [name : PlannerNames, arguments : PlannerArgs]

PlannerInit ==
    /\ PolicyIdle
    /\ ExecutorIdle
    /\ registry = StartupRegistry
    /\ ApiIdle
    /\ SessionIdle
    /\ PlanIdle
    /\ DeviceResultIdle
    /\ AuxIdle
    /\ pl_tool_calls \in {WithIds(calls) : calls \in SeqsUpTo(PlannerCalls, MaxToolCalls)}
    /\ pl_steps = <<>>
    /\ pl_done = FALSE

\* steps = _tool_calls_to_steps(response.tool_calls)
Plan ==
    /\ ~pl_done
    /\ pl_steps' = _tool_calls_to_steps(registry, pl_tool_calls, 1)
    /\ pl_done' = TRUE
    /\ UNCHANGED <<polVars, registry, exVars, apiVars, sm_messages, pl_tool_calls,
                   apVars, drVars, auxVars>>

PlannerNext == Plan

SpecPlanner == PlannerInit /\ [][PlannerNext]_vars

(***************************************************************************)
(* SpecPlan: the derived properties of an ActionPlan with any steps.       *)
(***************************************************************************)
PlanSteps ==
    [tool_name : {"google_calendar.update_event"},
     args : {<<>>},
     risk_level : RiskLevel,
     requires_confirmation : BOOLEAN,
     confirmation_phrase : {NonePhrase},
     idempotency_key : {"k1"},
     execution_target : {"server"},
     tool_call_id : {"tc1"}]

PlanInit ==
    /\ PolicyIdle
    /\ ExecutorIdle
    /\ registry = StartupRegistry
    /\ ApiIdle
    /\ SessionIdle
    /\ PlannerIdle
    /\ DeviceResultIdle
    /\ AuxIdle
    /\ ap_steps \in SeqsUpTo(PlanSteps, MaxPlanSteps)
    /\ ap_read = None

\* plan.needs_confirmation and plan.max_risk are read, as in evaluate's log.
ReadProperties ==
    /\ ap_read = None
    /\ ap_read' = Some([needs_confirmation |-> needs_confirmation(ap_steps),
                        max_risk |-> max_risk(ap_steps)])
    /\ UNCHANGED <<polVars, registry, exVars, apiVars, sm_messages,
                   plVars, ap_steps, drVars, auxVars>>

PlanNext == ReadProperties

SpecPlan == PlanInit /\ [][PlanNext]_vars

(***************************************************************************)
(* Properties of the policy evaluator (SpecPolicy).                        *)
(***************************************************************************)
\* C9: policy evaluation is monotone: after evaluate every step's risk level
\* is >= its level before under low < medium < high, and no step's
\* requires_confirmation goes from true to false.
C9_PolicyMonotone ==
    /\ Len(pol_plan) = Len(pol_before)
    /\ \A i \in DOMAIN pol_plan :
          /\ order(pol_plan[i].risk_level) >= order(pol_before[i].risk_level)
          /\ pol_before[i].requires_confirmation => pol_plan[i].requires_confirmation

\* A step flagged high upstream, for which the attendee rule asks only for
\* medium, has been evaluated.
C9_Witness ==
    /\ pol_runs = 1
    /\ \E i \in DOMAIN pol_plan :
          /\ pol_before[i].risk_level = "high"
          /\ pol_before[i].tool_name = "google_calendar.create_event"
          /\ DictGet(pol_before[i].args, "attendees", <<>>) # <<>>
          /\ pol_plan[i].risk_level = "high"

\* C10: policy evaluation is idempotent: the second run of evaluate leaves
\* every step's risk_level, requires_confirmation and confirmation_phrase as
\* the first run left them.
C10_PolicyIdempotent ==
    pol_runs = 2 =>
        /\ Len(pol_plan) = Len(pol_before)
        /\ \A i \in DOMAIN pol_plan :
              /\ pol_plan[i].risk_level = pol_before[i].risk_level
              /\ pol_plan[i].requires_confirmation = pol_before[i].requires_confirmation
              /\ pol_plan[i].confirmation_phrase = pol_before[i].confirmation_phrase

\* evaluate has run twice on a step the first run escalated.
C10_Witness ==
    /\ pol_runs = 2
    /\ \E i \in DOMAIN pol_plan :
          /\ pol_plan[i].tool_name = "google_calendar.update_event"
          /\ pol_plan[i].risk_level = "medium"
          /\ pol_plan[i].requires_confirmation
          /\ pol_plan[i].confirmation_phrase = NotifyPhrase

(***************************************************************************)
(* Properties of the Executor (SpecExecutor).                              *)
(***************************************************************************)
StepResults == ex_result.step_results

\* C1: for one Executor, over any sequence of passes, each idempotency key
\* is effectively executed at most once: tool.execute returns successfully
\* for it at most once, at most one DeviceAction is built for it, and not both.
C1_AtMostOnce ==
    \A k \in ExecKeys :
        /\ exec_ok[k] <= 1
        /\ dev_emitted[k] <= 1
        /\ exec_ok[k] + dev_emitted[k] <= 1

\* A key this Executor executed on the server is met again by a later step.
C1_Witness ==
    \E j \in DOMAIN ex_trace :
        /\ ex_trace[j].pre
        /\ exec_ok[StepResults[j].step.idempotency_key] = 1

\* C2: a step whose idempotency key is already in the executed-key set when
\* _execute_step is entered (in either pass) does not have tool.execute
\* invoked, and its StepResult is success = true with result {skipped: true}.
C2_SkipExecuted ==
    /\ Len(ex_trace) = Len(StepResults)
    /\ \A j \in DOMAIN ex_trace :
          ex_trace[j].pre =>
              /\ ex_trace[j].idx \notin ex_invoked
              /\ StepResults[j].success
              /\ StepResults[j].result = Some([skipped |-> TRUE])
              /\ StepResults[j].error.none
              /\ StepResults[j].device_action.none

\* A step whose key was pre-marked at construction (never executed by this
\* Executor) is reported as skipped.
C2_Witness ==
    \E j \in DOMAIN ex_trace :
        /\ ex_trace[j].pre
        /\ exec_ok[StepResults[j].step.idempotency_key] = 0
        /\ dev_emitted[StepResults[j].step.idempotency_key] = 0
        /\ StepResults[j].step.execution_target = "server"

FailedResults == {j \in DOMAIN StepResults : ~StepResults[j].success}

\* C3: stop on first failure, in both passes: the StepResults hold at most
\* one failed result, it is the last one, all_succeeded is false exactly when
\* there is one, and once a step failed the pass does nothing but return: no
\* later step has a StepResult, a tool invocation or a DeviceAction.
C3_StopOnFirstFailure ==
    /\ Cardinality(FailedResults) <= 1
    /\ ex_result.all_succeeded = (FailedResults = {})
    /\ \A j \in FailedResults :
          /\ j = Len(StepResults)
          /\ ex_pc = "break"
          /\ ex_i = ex_trace[j].idx + 1
          /\ \A t \in DOMAIN ex_trace : ex_trace[t].idx <= ex_trace[j].idx
          /\ \A x \in ex_invoked : x <= ex_trace[j].idx
    /\ \A a \in DOMAIN ex_result.device_actions :
          \E j \in DOMAIN StepResults :
              StepResults[j].device_action = Some(ex_result.device_actions[a])

\* A 3-step plan whose second step failed: two StepResults, the third step
\* not attempted.
C3_Witness ==
    /\ ex_pc = "break"
    /\ Len(ex_plan) = 3
    /\ Len(StepResults) = 2
    /\ StepResults[1].success
    /\ ~StepResults[2].success
    /\ ex_i = 3
    /\ ~ex_result.all_succeeded

\* C4 as stated: every device-surface step a pass handles produces a
\* DeviceAction (and never invokes the tool).
C4_DeviceAlwaysDelegated ==
    \A j \in DOMAIN ex_trace :
        StepResults[j].step.execution_target = "device" =>
            /\ ex_trace[j].idx \notin ex_invoked
            /\ ~StepResults[j].device_action.none

\* C4, amended: a device-surface step never has tool.execute invoked; when
\* its key is not already executed it produces exactly a DeviceAction with
\* the step's tool name, args and idempotency key, as a successful StepResult
\* without result or error; when its key is already executed it is reported
\* as skipped and produces no DeviceAction.  Only device-surface steps
\* produce DeviceActions.
C4_DeviceDelegation ==
    /\ \A j \in DOMAIN ex_trace :
          LET sr == StepResults[j]
          IN /\ sr.step.execution_target = "device" =>
                   /\ ex_trace[j].idx \notin ex_invoked
                   /\ sr.success
                   /\ sr.error.none
                   /\ ~ex_trace[j].pre =>
                         /\ sr.result.none
                         /\ ~sr.device_action.none
                         /\ sr.device_action.value.tool_name = sr.step.tool_name
                         /\ sr.device_action.value.args = sr.step.args
                         /\ sr.device_action.value.idempotency_key = sr.step.idempotency_key
                   /\ ex_trace[j].pre => sr.device_action.none
             /\ ~sr.device_action.none => sr.step.execution_target = "device"
    /\ Len(ex_result.device_actions) =
          Cardinality({j \in DOMAIN StepResults : ~StepResults[j].device_action.none})

\* A device-surface step was delegated.
C4_Witness ==
    \E j \in DOMAIN ex_trace :
        /\ StepResults[j].step.execution_target = "device"
        /\ ~ex_trace[j].pre
        /\ ~StepResults[j].device_action.none
        /\ Len(ex_result.device_actions) = 1

Flagged(i) == ex_plan[i].requires_confirmation

\* C5: the execute-now pass gives a flagged step no StepResult, no tool
\* invocation and no DeviceAction, and still handles the unflagged steps
\* before and after it in plan order; the execute-confirmed pass handles
\* every step.  In both, the steps handled so far are exactly the eligible
\* ones before the loop position, so a pass that ends without a failure has
\* handled every eligible step, and one that ends with a failure every
\* eligible step up to the failed one.
C5_DeferralByPass ==
    /\ Len(ex_trace) = Len(StepResults)
    /\ \A j \in DOMAIN ex_trace :
          /\ ex_trace[j].idx \in DOMAIN ex_plan
          /\ StepResults[j].step = ex_plan[ex_trace[j].idx]
          /\ ex_mode = "now" => ~Flagged(ex_trace[j].idx)
    /\ \A j, k \in DOMAIN ex_trace : j < k => ex_trace[j].idx < ex_trace[k].idx
    /\ \A x \in ex_invoked : x \in DOMAIN ex_plan /\ (ex_mode = "now" => ~Flagged(x))
    /\ ex_pc # "await" =>
          {ex_trace[j].idx : j \in DOMAIN ex_trace} =
             {i \in 1..(ex_i - 1) : ex_mode = "confirmed" \/ ~Flagged(i)}
    /\ (PassDone /\ ex_result.all_succeeded) => ex_i = Len(ex_plan) + 1

\* An execute-now pass over unflagged, flagged, unflagged is over: two
\* StepResults, for the first and the third step.
C5_Witness ==
    /\ PassDone
    /\ ex_mode = "now"
    /\ Len(ex_plan) = 3
    /\ ~Flagged(1) /\ Flagged(2) /\ ~Flagged(3)
    /\ Len(ex_trace) = 2
    /\ ex_trace[1].idx = 1
    /\ ex_trace[2].idx = 3

(***************************************************************************)
(* SpecDeviceResult: one POST /command/device-result with any reports.     *)
(***************************************************************************)
DeviceActionResults ==
    [action_id : {"a1", "a2"},
     success : BOOLEAN,
     error : {None, Some(<<>>), Some(<<"no calendar access">>)}]

DeviceResultInit ==
    /\ PolicyIdle
    /\ ExecutorIdle
    /\ registry = StartupRegistry
    /\ ApiIdle
    /\ SessionIdle
    /\ PlannerIdle
    /\ PlanIdle
    /\ AuxIdle
    /\ dr_results \in SeqsUpTo(DeviceActionResults, MaxResults)
    /\ dr_response = None

\* POST /command/device-result
ReportDeviceResult ==
    /\ dr_response = None
    /\ dr_response' = Some(report_device_result("u1", 1, dr_results))
    /\ UNCHANGED <<polVars, registry, exVars, apiVars, sm_messages, plVars, apVars,
                   dr_results, auxVars>>

DeviceResultNext == ReportDeviceResult

SpecDeviceResult == DeviceResultInit /\ [][DeviceResultNext]_vars

(***************************************************************************)
(* Claims about the API (SpecApi).  last describes the request handled     *)
(* most recently: what it found, what its Executor pass did and what it    *)
(* answered.                                                               *)
(***************************************************************************)
FlaggedSteps(steps) == {i \in DOMAIN steps : steps[i].requires_confirmation}

\* The request ran no step: nothing executed, delegated, verified or audited.
LastDidNothing ==
    /\ last.pass = NewPass({})
    /\ last.verified = {}
    /\ last.audits = <<>>
    /\ last.device_actions = <<>>

\* The steps of the request's plan that its pass handled.
LastHandled == {last.pass.handled[j] : j \in DOMAIN last.pass.handled}

\* C6: a /command request whose evaluated plan has a step that requires
\* confirmation stores the plan in the pending store under its plan_id with
\* the requesting user's id, answers requires_confirmation = true with that
\* plan_id and runs no step; a flagged step is handled (executed or turned
\* into a DeviceAction) only by a confirm request that found the plan and was
\* made by the user who requested it.
C6_DeferUntilConfirmed ==
    /\ (last.kind = "command" /\ FlaggedSteps(last.steps) # {}) =>
          /\ last.plan_id \in DOMAIN pending
          /\ pending[last.plan_id].plan = last.steps
          /\ pending[last.plan_id].owner = last.user
          /\ last.requires_confirmation
          /\ last.response_plan_id = Some(last.plan_id)
          /\ LastDidNothing
    /\ (LastHandled \cap FlaggedSteps(last.steps) # {}) =>
          /\ last.kind = "confirm"
          /\ last.found
          /\ last.status \notin {403, 404}
          /\ last.user = last.owner
          /\ last.user = plan_user[last.plan_id]

\* A plan with a flagged and an unflagged step has just been deferred.
C6_Witness ==
    /\ last.kind = "command"
    /\ last.requires_confirmation
    /\ FlaggedSteps(last.steps) # {}
    /\ FlaggedSteps(last.steps) # DOMAIN last.steps
    /\ last.plan_id \in DOMAIN pending

\* C7: a confirm request that finds a pending plan owned by another user
\* fails with Forbidden, and no step of the plan is executed, delegated,
\* verified or audited.
C7_ForeignConfirmForbidden ==
    (last.kind = "confirm" /\ last.found /\ last.owner # last.user) =>
        /\ last.status = 403
        /\ LastDidNothing

\* Another user has just tried to confirm a pending plan.
C7_Witness ==
    /\ last.kind = "confirm"
    /\ last.found
    /\ last.owner # last.user
    /\ last.steps # <<>>

\* C8: a pending entry is consumed at most once: a confirm request that
\* finds the entry removes it, an entry still in the store was never
\* consumed, and a confirm request that finds no entry fails with NotFound
\* and runs nothing.
C8_ConsumedOnce ==
    /\ \A p \in PlanIds :
          /\ consumed[p] <= 1
          /\ p \in DOMAIN pending => consumed[p] = 0
    /\ (last.kind = "confirm" /\ last.found) => last.plan_id \notin DOMAIN pending
    /\ (last.kind = "confirm" /\ ~last.found) =>
          /\ last.status = 404
          /\ LastDidNothing

\* A second confirm for a plan whose entry was already consumed got NotFound.
C8_Witness ==
    /\ last.kind = "confirm"
    /\ last.status = 404
    /\ consumed[last.plan_id] = 1

(***************************************************************************)
(* More claims about the policy (SpecPolicy).                              *)
(***************************************************************************)
\* C11: after evaluate, every step of a destructive tool
\* (google_calendar.delete_event, ios_eventkit.delete_event) has risk_level
\* high, requires_confirmation true and a non-null confirmation phrase,
\* whatever its flags were before; a non-empty phrase it already carried is
\* kept.
C11_DestructiveForced ==
    pol_runs >= 1 =>
        \A i \in DOMAIN pol_plan :
            pol_plan[i].tool_name \in
                {"google_calendar.delete_event", "ios_eventkit.delete_event"} =>
                    /\ pol_plan[i].risk_level = "high"
                    /\ pol_plan[i].requires_confirmation
                    /\ ~pol_plan[i].confirmation_phrase.none
                    /\ (/\ ~pol_before[i].confirmation_phrase.none
                        /\ pol_before[i].confirmation_phrase.text # <<>>) =>
                           pol_plan[i].confirmation_phrase =
                               pol_before[i].confirmation_phrase

\* A destructive step that came in low, unflagged and with a phrase of its
\* own has been evaluated once.
C11_Witness ==
    /\ pol_runs = 1
    /\ \E i \in DOMAIN pol_plan :
          /\ pol_plan[i].tool_name = "ios_eventkit.delete_event"
          /\ pol_before[i].risk_level = "low"
          /\ ~pol_before[i].requires_confirmation
          /\ pol_before[i].confirmation_phrase = Str(<<"upstream phrase">>)

\* The step notifies third parties: attendees is a non-empty list, or
\* send_updates is all or externalOnly.
NotifiesThirdParties(args) ==
    \/ "attendees" \in DOMAIN args /\ args["attendees"] # <<>>
    \/ "send_updates" \in DOMAIN args /\ args["send_updates"] \in {"all", "externalOnly"}

\* C12: after evaluate, a google_calendar.create_event or update_event step
\* with a non-empty attendees argument or with send_updates all or
\* externalOnly has risk_level at least medium and requires_confirmation
\* true; such a step with neither keeps its risk_level, requires_confirmation
\* and confirmation_phrase.
C12_ThirdPartyForced ==
    pol_runs >= 1 =>
        \A i \in DOMAIN pol_plan :
            pol_plan[i].tool_name \in
                {"google_calendar.create_event", "google_calendar.update_event"} =>
                    IF NotifiesThirdParties(pol_before[i].args)
                    THEN /\ pol_plan[i].risk_level \in {"medium", "high"}
                         /\ pol_plan[i].requires_confirmation
                    ELSE pol_plan[i] = pol_before[i]

\* A create_event step with one attendee that came in low and unflagged has
\* been evaluated once.
C12_Witness ==
    /\ pol_runs = 1
    /\ \E i \in DOMAIN pol_plan :
          /\ pol_plan[i].tool_name = "google_calendar.create_event"
          /\ pol_before[i].args = [attendees |-> <<"ann@x">>]
          /\ pol_before[i].risk_level = "low"
          /\ ~pol_before[i].requires_confirmation

(***************************************************************************)
(* Claims about the session store (SpecSession).                           *)
(***************************************************************************)
\* A turn with role user whose content is purely textual.
PlainUserTurn(turn) ==
    /\ turn.role = "user"
    /\ \/ turn.content.kind = "str"
       \/ \A b \in DOMAIN turn.content.blocks : turn.content.blocks[b].type = "text"

\* C13: when a conversation longer than max_messages is saved, the stored
\* turns come from the window of its most recent max_messages turns: from
\* the first plain user text turn of the window onward if the window has
\* one (so the first stored turn is plain user text), and otherwise the last
\* 4 turns of the window.
C13_TrimOnSave ==
    ("u1" \in DOMAIN sessions /\ Len(sm_messages) > SessionMaxMessages) =>
        LET n == Len(sm_messages)
            window == SubSeq(sm_messages, n - SessionMaxMessages + 1, n)
            plain == {i \in DOMAIN window : PlainUserTurn(window[i])}
            stored == sessions["u1"].messages
        IN IF plain # {}
           THEN /\ \E i \in plain :
                      /\ \A j \in plain : i <= j
                      /\ stored = SubSeq(window, i, Len(window))
                /\ PlainUserTurn(stored[1])
           ELSE stored = SubSeq(window,
                                IF Len(window) > 4 THEN Len(window) - 3 ELSE 1,
                                Len(window))

\* A long conversation was saved whose window starts with an assistant turn
\* and has its first plain user turn further on.
C13_Witness ==
    /\ "u1" \in DOMAIN sessions
    /\ Len(sm_messages) > SessionMaxMessages
    /\ Len(sessions["u1"].messages) < SessionMaxMessages - 1
    /\ PlainUserTurn(sessions["u1"].messages[1])

(***************************************************************************)
(* Claims about planning (SpecPlanner).                                    *)
(***************************************************************************)
\* C14: the planner makes one ActionStep per tool call, in the same order
\* and with the call's id, name and arguments; a name containing delete or
\* cancel gives risk high, requires_confirmation true and a non-null phrase;
\* otherwise a name containing create or update gives risk medium, with
\* requires_confirmation true exactly when the arguments have an attendees
\* key; any other name gives risk low without confirmation.
C14_OneStepPerToolCall ==
    pl_done =>
        /\ Len(pl_steps) = Len(pl_tool_calls)
        /\ \A i \in DOMAIN pl_tool_calls :
              LET tc == pl_tool_calls[i]
                  step == pl_steps[i]
                  words == NameWords(tc.name)
              IN /\ step.tool_name = tc.name
                 /\ step.args = tc.arguments
                 /\ step.tool_call_id = tc.id
                 /\ IF words \cap {"delete", "cancel"} # {}
                    THEN /\ step.risk_level = "high"
                         /\ step.requires_confirmation
                         /\ ~step.confirmation_phrase.none
                    ELSE IF words \cap {"create", "update"} # {}
                    THEN /\ step.risk_level = "medium"
                         /\ step.requires_confirmation = ("attendees" \in DOMAIN tc.arguments)
                    ELSE /\ step.risk_level = "low"
                         /\ ~step.requires_confirmation

\* A create_event call with an empty attendees list followed by a cancel
\* call has been planned.
C14_Witness ==
    /\ pl_done
    /\ Len(pl_tool_calls) = 2
    /\ pl_tool_calls[1].name = "google_calendar.create_event"
    /\ pl_tool_calls[1].arguments = [attendees |-> <<>>]
    /\ pl_tool_calls[2].name = "ios_notifications.cancel"

(***************************************************************************)
(* More claims about the API (SpecApi).                                    *)
(***************************************************************************)
\* The steps of the request's plan whose tool name contains delete or cancel.
DeleteStyleSteps ==
    {i \in DOMAIN last.steps :
        NameWords(last.steps[i].tool_name) \cap {"delete", "cancel"} # {}}

\* C15: for a /command request whose response has a delete-style tool call
\* (name containing delete or cancel), the plan's matching step has
\* risk_level high, requires_confirmation true and a non-null confirmation
\* phrase after planning and policy, and the request's results hold nothing
\* for it: no StepResult and no DeviceAction.
C15_DeleteStyleDeferred ==
    last.kind = "command" =>
        \A i \in DeleteStyleSteps :
            /\ last.steps[i].risk_level = "high"
            /\ last.steps[i].requires_confirmation
            /\ ~last.steps[i].confirmation_phrase.none
            /\ i \notin LastHandled
            /\ \A j \in DOMAIN last.pass.result.step_results :
                  last.pass.result.step_results[j].step.idempotency_key
                      # last.steps[i].idempotency_key
            /\ \A j \in DOMAIN last.device_actions :
                  last.device_actions[j].idempotency_key
                      # last.steps[i].idempotency_key

\* A response that lists events and then cancels a notification has been
\* handled by /command.
C15_Witness ==
    /\ last.kind = "command"
    /\ Len(last.steps) = 2
    /\ last.steps[1].tool_name = "google_calendar.list_events"
    /\ last.steps[2].tool_name = "ios_notifications.cancel"

(***************************************************************************)
(* More claims about the Executor (SpecExecutor).                          *)
(***************************************************************************)
\* C16: when tool.execute raises during a pass, the exception is caught:
\* the step gets a failed StepResult carrying the exception's message and
\* no result, the pass goes on to return (the loop is left), and execute was
\* awaited once for the step: the step has this one StepResult in the pass.
C16_RaiseBecomesFailedResult ==
    \A j \in DOMAIN ex_trace :
        ~ex_trace[j].raised.none =>
            /\ j \in DOMAIN ex_result.step_results
            /\ ~ex_result.step_results[j].success
            /\ ex_result.step_results[j].error = ex_trace[j].raised
            /\ ex_result.step_results[j].result = None
            /\ ex_result.step_results[j].step = ex_plan[ex_trace[j].idx]
            /\ ex_trace[j].idx \in ex_invoked
            /\ \A k \in DOMAIN ex_trace : k # j => ex_trace[k].idx # ex_trace[j].idx
            /\ PassDone

\* The second handled step of a pass raised.
C16_Witness ==
    /\ Len(ex_trace) = 2
    /\ ~ex_trace[2].raised.none
    /\ ex_result.step_results[1].success

\* C17: a key is recorded as executed only on resolution.  In every step of
\* the Executor the executed-key set keeps all its keys; it gains exactly
\* the key of a step that has just resolved by a successful return of
\* execute or by delegation as a DeviceAction, and gains nothing otherwise;
\* after a step has failed its key is not in the set, so a later pass
\* attempts it again.
C17_KeysRecordedOnResolution ==
    [][ /\ executed_keys \subseteq executed_keys'
        /\ IF Len(ex_result'.step_results) = Len(ex_result.step_results) + 1
           THEN LET sr == ex_result'.step_results[Len(ex_result'.step_results)]
                    key == sr.step.idempotency_key
                    resolved == /\ sr.success
                                /\ \/ ~sr.device_action.none
                                   \/ ex_i \in ex_invoked'
                IN /\ executed_keys' = IF resolved THEN executed_keys \union {key}
                                       ELSE executed_keys
                   /\ ~sr.success => key \notin executed_keys'
           ELSE executed_keys' = executed_keys
      ]_vars

\* A pass recorded the key of its first step and then failed its second
\* step, whose key stays unrecorded.
C17_Witness ==
    /\ Len(ex_result.step_results) = 2
    /\ ex_result.step_results[1].success
    /\ ~ex_trace[1].pre
    /\ ~ex_result.step_results[2].success
    /\ ex_result.step_results[1].step.idempotency_key \in executed_keys
    /\ ex_result.step_results[2].step.idempotency_key \notin executed_keys

ProcessedBefore(i) ==
    {x \in 1..(i - 1) : ex_mode = "confirmed" \/ ~ex_plan[x].requires_confirmation}

\* C19: steps are executed in order and one at a time: the StepResults of a
\* pass are those of its processed steps in plan order, every resolved step
\* lies before the loop position, and while a tool is awaited for a step
\* every processed step before it has its StepResult and no other step has
\* one, so no two steps are in flight.
C19_SequentialInOrder ==
    /\ Len(ex_result.step_results) = Len(ex_trace)
    /\ \A j \in DOMAIN ex_trace :
          /\ ex_result.step_results[j].step = ex_plan[ex_trace[j].idx]
          /\ ex_trace[j].idx < ex_i
          /\ \A k \in DOMAIN ex_trace : j < k => ex_trace[j].idx < ex_trace[k].idx
    /\ ex_pc = "await" =>
          /\ ex_i \in DOMAIN ex_plan
          /\ {ex_trace[j].idx : j \in DOMAIN ex_trace} = ProcessedBefore(ex_i)

\* A tool is awaited for the third step of a plan whose first two steps,
\* different ones, have resolved.
C19_Witness ==
    /\ ex_pc = "await"
    /\ ex_i = 3
    /\ Len(ex_trace) = 2
    /\ ex_plan[1] # ex_plan[2]

(***************************************************************************)
(* Claims about the ActionPlan (SpecPlan).                                 *)
(***************************************************************************)
\* C20: needs_confirmation is true exactly when some step has
\* requires_confirmation true, and max_risk is the highest risk level among
\* the steps under low < medium < high, low for a plan without steps.
C20_DerivedProperties ==
    ~ap_read.none =>
        /\ ap_read.value.needs_confirmation =
              (\E i \in DOMAIN ap_steps : ap_steps[i].requires_confirmation)
        /\ IF ap_steps = <<>>
           THEN ap_read.value.max_risk = "low"
           ELSE /\ \E i \in DOMAIN ap_steps : ap_steps[i].risk_level = ap_read.value.max_risk
                /\ \A i \in DOMAIN ap_steps :
                      order(ap_steps[i].risk_level) <= order(ap_read.value.max_risk)

\* The properties of a plan were read whose steps are medium, high and low
\* in this order and of which only the last requires confirmation.
C20_Witness ==
    /\ ~ap_read.none
    /\ Len(ap_steps) = 3
    /\ ap_steps[1].risk_level = "medium"
    /\ ap_steps[2].risk_level = "high"
    /\ ap_steps[3].risk_level = "low"
    /\ ~ap_steps[1].requires_confirmation
    /\ ~ap_steps[2].requires_confirmation
    /\ ap_steps[3].requires_confirmation

(***************************************************************************)
(* Claims about device results (SpecDeviceResult).                         *)
(***************************************************************************)
\* C21: the device-result endpoint returns one verification per reported
\* result, in order; a result with success false verifies as a mismatch
\* with a discrepancy, a result with success true as a match without
\* discrepancies; the status is verified exactly when every result matched
\* and partial_failure otherwise.
C21_DeviceReconciliation ==
    ~dr_response.none =>
        LET resp == dr_response.value
        IN /\ Len(resp.verifications) = Len(dr_results)
           /\ \A i \in DOMAIN dr_results :
                 /\ resp.verifications[i].action_id = dr_results[i].action_id
                 /\ resp.verifications[i].matched = dr_results[i].success
                 /\ (resp.verifications[i].discrepancies # <<>>) = ~dr_results[i].success
           /\ resp.status \in {"verified", "partial_failure"}
           /\ (resp.status = "verified") =
                 (\A i \in DOMAIN resp.verifications : resp.verifications[i].matched)

\* A report of one success followed by one failure has been answered.
C21_Witness ==
    /\ ~dr_response.none
    /\ Len(dr_results) = 2
    /\ dr_results[1].success
    /\ ~dr_results[2].success
    /\ dr_response.value.status = "partial_failure"

(***************************************************************************)
(* Claims about the verify/audit loop of /command and /confirm (SpecApi).  *)
(***************************************************************************)
\* The positions of the request's step results that are successful, ran on
\* the server and carry a non-empty result.
LastVerifiable ==
    {j \in DOMAIN last.pass.result.step_results :
        LET sr == last.pass.result.step_results[j]
        IN /\ sr.success
           /\ sr.step.execution_target = "server"
           /\ ~sr.result.none /\ sr.result.value # <<>>}

\* C22: in /command and /confirm, verify is invoked for a StepResult exactly
\* when the step succeeded, ran on the server surface and has a non-empty
\* result; it is never invoked for a failed step, a device step or a step
\* with an empty result.
C22_VerifyExactlyWhenVerifiable ==
    last.kind \in {"command", "confirm"} =>
        last.verified = {last.pass.handled[j] : j \in LastVerifiable}

\* C23: verification is advisory: whatever it yields, a match, a mismatch or
\* a failure of the read-back itself, the remaining step results are still
\* processed and the request completes with its response, carrying the
\* plan id and the device actions of the pass.
C23_VerificationAdvisory ==
    (last.kind \in {"command", "confirm"} /\ last.verified # {}) =>
        /\ last.status = 200
        /\ Len(last.audits) = Len(last.pass.result.step_results)
        /\ last.response_plan_id = Some(last.plan_id)
        /\ last.device_actions = last.pass.result.device_actions

\* C24: for every StepResult of an execution pass in /command or /confirm
\* exactly one audit record is written for the requesting user and the plan,
\* with status ok exactly when the step succeeded.
C24_OneAuditPerStepResult ==
    last.kind \in {"command", "confirm"} =>
        /\ Len(last.audits) = Len(last.pass.result.step_results)
        /\ \A j \in DOMAIN last.audits :
              /\ last.audits[j].user_id = last.user
              /\ last.audits[j].plan_id = last.plan_id
              /\ last.audits[j].tool_name =
                    last.pass.result.step_results[j].step.tool_name
              /\ (last.audits[j].status = "ok") =
                    last.pass.result.step_results[j].success

(***************************************************************************)
(* tools/registry.py: registration and lookup (SpecRegistry).  A tool is   *)
(* its name and its execution surface; two tools of one name differ in the *)
(* surface.                                                                *)
(***************************************************************************)
MaxRegistrations == 3

\* Mutant of register_tool: a name that is already registered keeps its tool.
RegisterToolKeepsFirst(reg, tool) ==
    [n \in DOMAIN reg \union {tool.name} |->
        IF n \in DOMAIN reg THEN reg[n] ELSE tool]

\* _REGISTRY[tool.name] = tool
register_tool(reg, tool) ==
    [n \in DOMAIN reg \union {tool.name} |->
        IF n = tool.name THEN tool ELSE reg[n]]

\* _REGISTRY.get(name)
get_tool(reg, name) == IF name \in DOMAIN reg THEN Some(reg[name]) ELSE None

RegistryNames ==
    {"google_calendar.list_events", "google_calendar.quick_add",
     "ios_eventkit.create_event"}

RegistryTools ==
    [name : RegistryNames, execution_target : {"server", "device"}]

\* _REGISTRY: dict[str, BaseTool] = {}
RegistryInit ==
    /\ PolicyIdle
    /\ ExecutorIdle
    /\ ApiIdle
    /\ SessionIdle
    /\ PlannerIdle
    /\ PlanIdle
    /\ DeviceResultIdle
    /\ PlanRetryIdle
    /\ LoadIdle
    /\ LateIdle
    /\ registry = <<>>
    /\ rg_log = <<>>
    /\ rg_lookup = None

\* register_tool(tool)
RegisterTool ==
    /\ Len(rg_log) < MaxRegistrations
    /\ \E tool \in RegistryTools :
          /\ registry' = register_tool(registry, tool)
          /\ rg_log' = Append(rg_log, tool)
    /\ UNCHANGED <<polVars, exVars, apiVars, sm_messages, plVars, apVars, drVars,
                   rg_lookup, ppVars, sm_loaded, lateVars>>

\* get_tool(name)
GetTool ==
    /\ \E name \in RegistryNames :
          rg_lookup' = Some([name |-> name, tool |-> get_tool(registry, name),
                             at |-> Len(rg_log)])
    /\ UNCHANGED <<polVars, registry, exVars, apiVars, sm_messages, plVars, apVars,
                   drVars, rg_log, ppVars, sm_loaded, lateVars>>

RegistryNext == RegisterTool \/ GetTool

SpecRegistry == RegistryInit /\ [][RegistryNext]_vars

(***************************************************************************)
(* Claims about the registry (SpecRegistry).                               *)
(***************************************************************************)
\* The tool registered last under a name in a sequence of registrations.
LastRegistered(log, name) ==
    LET idx == {i \in DOMAIN log : log[i].name = name}
    IN IF idx = {} THEN None
       ELSE Some(log[CHOOSE i \in idx : \A k \in idx : k <= i])

\* C25: the registry is name-keyed and additive: get_tool returns the tool
\* registered most recently under the name and nothing for a name that was
\* never registered; registering one name never changes another name's
\* entry, and lookups never modify the registry.
C25_RegistryLastWins ==
    /\ \A n \in RegistryNames : get_tool(registry, n) = LastRegistered(rg_log, n)
    /\ ~rg_lookup.none =>
          rg_lookup.value.tool =
              LastRegistered(SubSeq(rg_log, 1, rg_lookup.value.at), rg_lookup.value.name)

\* A name was registered, then another name, then the first name again with
\* a different tool; a lookup of the first name returned the later tool and
\* the other name's entry is the one registered for it.
C25_Witness ==
    /\ Len(rg_log) = 3
    /\ rg_log[1].name = rg_log[3].name
    /\ rg_log[1] # rg_log[3]
    /\ rg_log[2].name # rg_log[1].name
    /\ ~rg_lookup.none
    /\ rg_lookup.value.at = 3
    /\ rg_lookup.value.name = rg_log[1].name
    /\ rg_lookup.value.tool = Some(rg_log[3])
    /\ registry[rg_log[2].name] = rg_log[2]

(***************************************************************************)
(* Claims about conversational replies (SpecApi).                          *)
(***************************************************************************)
\* C26: a /command request whose LLM response carries no tool calls is
\* answered as a pure conversational reply: no plan is created (no plan id
\* is used up), no pending entry is created, no tool is executed, no
\* DeviceAction is returned, no audit record is written, and the response
\* has requires_confirmation = false and no plan_id.
C26_ChatReplyOnly ==
    [][(requests' = requests + 1 /\ last'.kind = "command" /\ last'.calls = 0) =>
          /\ next_plan' = next_plan
          /\ plan_user' = plan_user
          /\ pending' = pending
          /\ last'.steps = <<>>
          /\ last'.pass = NewPass({})
          /\ last'.verified = {}
          /\ last'.audits = <<>>
          /\ last'.device_actions = <<>>
          /\ last'.status = 200
          /\ ~last'.requires_confirmation
          /\ last'.response_plan_id = None]_vars

\* A /command request without tool calls was answered while a plan of an
\* earlier request was pending.
C26_Witness ==
    /\ last.kind = "command"
    /\ last.calls = 0
    /\ requests >= 2
    /\ pending # <<>>
    /\ last.response_plan_id = None

(***************************************************************************)
(* core/planner.py Planner.plan (SpecPlanRetry).  The raw output of an LLM *)
(* call is a dict with an optional clarification_needed and a list of step *)
(* dicts (a string is held as a phrase: Str(tokens)), or the call raises.  *)
(* ActionPlan(...) validates each step dict                                *)
(* against ActionStep: tool_name is required and risk_level, if given,     *)
(* must be a RiskLevel.                                                    *)
(***************************************************************************)
MaxRawSteps == 2

\* The call of the LLM raised.
LLMRaises == [raises |-> TRUE]

\* ActionStep(**step) succeeds
StepValidates(step) ==
    /\ "tool_name" \in DOMAIN step
    /\ DictGet(step, "risk_level", "low") \in RiskLevel

\* ActionPlan(user_intent=..., steps=raw.get("steps", [])) succeeds
ActionPlanValidates(raw) ==
    \A i \in DOMAIN DictGet(raw, "steps", <<>>) : StepValidates(raw.steps[i])

\* str(exc) of the ValidationError: the positions of the offending steps
ValidationErrorOf(raw) ==
    <<"validation error", {i \in DOMAIN DictGet(raw, "steps", <<>>) : ~StepValidates(raw.steps[i])}>>

\* raw.get("clarification_needed")
ClarificationNeeded(raw) == Truthy(DictGet(raw, "clarification_needed", NonePhrase))

\* One call of the LLM by Planner.plan, as seen by the LLM client.
LLMCall(method, validation_error) ==
    [method |-> method, validation_error |-> validation_error]

\* How Planner.plan ends: the LLM calls it made, and a returned plan, a
\* returned clarification or a raised error.
PlanResult(calls, outcome, plan) == [calls |-> calls, outcome |-> outcome, plan |-> plan]

\* Mutant of Planner_plan: the ValidationError of the first output is not
\* caught.
PlannerPlanNoRetry(raw, raw_retry) ==
    LET first == <<LLMCall("plan", None)>>
    IN IF raw = LLMRaises THEN PlanResult(first, "llm_error", None)
       ELSE IF ClarificationNeeded(raw) THEN PlanResult(first, "clarification", None)
       ELSE IF ActionPlanValidates(raw)
            THEN PlanResult(first, "plan", Some(DictGet(raw, "steps", <<>>)))
       ELSE PlanResult(first, "validation_error", None)

\* Planner.plan
Planner_plan(raw, raw_retry) ==
    LET first == <<LLMCall("plan", None)>>
    IN IF raw = LLMRaises THEN PlanResult(first, "llm_error", None)
       ELSE IF ClarificationNeeded(raw) THEN PlanResult(first, "clarification", None)
       ELSE IF ActionPlanValidates(raw)
            THEN PlanResult(first, "plan", Some(DictGet(raw, "steps", <<>>)))
       ELSE LET both == Append(first,
                            LLMCall("plan_with_retry", Some(ValidationErrorOf(raw))))
            IN IF raw_retry = LLMRaises THEN PlanResult(both, "llm_error", None)
               ELSE IF ClarificationNeeded(raw_retry)
                    THEN PlanResult(both, "clarification", None)
               ELSE IF ActionPlanValidates(raw_retry)
                    THEN PlanResult(both, "plan", Some(DictGet(raw_retry, "steps", <<>>)))
               ELSE PlanResult(both, "validation_error", None)

\* Step dicts an LLM may put out: a well-formed one, one without tool_name,
\* one with a risk_level that is no RiskLevel.
RawSteps ==
    { [tool_name |-> "google_calendar.list_events"],
      [args |-> <<>>],
      [tool_name |-> "google_calendar.delete_event", risk_level |-> "extreme"] }

RawOutputs ==
    { [steps |-> steps] : steps \in SeqsUpTo(RawSteps, MaxRawSteps) }
    \union { [clarification_needed |-> question, steps |-> steps] :
                question \in {Str(<<"which event?">>), Str(<<>>)},
                steps \in SeqsUpTo(RawSteps, MaxRawSteps) }
    \union { LLMRaises }

PlanRetryInit ==
    /\ PolicyIdle
    /\ ExecutorIdle
    /\ registry = StartupRegistry
    /\ ApiIdle
    /\ SessionIdle
    /\ PlannerIdle
    /\ PlanIdle
    /\ DeviceResultIdle
    /\ RegistryIdle
    /\ LoadIdle
    /\ LateIdle
    /\ pp_raw \in RawOutputs
    /\ pp_raw_retry \in RawOutputs
    /\ pp_result = None

\* await planner.plan(transcript, ...)
PlannerPlan ==
    /\ pp_result = None
    /\ pp_result' = Some(Planner_plan(pp_raw, pp_raw_retry))
    /\ UNCHANGED <<polVars, registry, exVars, apiVars, sm_messages, plVars, apVars,
                   drVars, rgVars, pp_raw, pp_raw_retry, sm_loaded, lateVars>>

PlanRetryNext == PlannerPlan

SpecPlanRetry == PlanRetryInit /\ [][PlanRetryNext]_vars

(***************************************************************************)
(* Claims about Planner.plan (SpecPlanRetry).                              *)
(***************************************************************************)
\* The LLM output is a dict that asks for no clarification (none, or an
\* empty one) and has a step that is no ActionStep.
FailsValidation(raw) ==
    /\ raw # LLMRaises
    /\ ("clarification_needed" \in DOMAIN raw => raw.clarification_needed = Str(<<>>))
    /\ \E i \in DOMAIN raw.steps :
          \/ "tool_name" \notin DOMAIN raw.steps[i]
          \/ ("risk_level" \in DOMAIN raw.steps[i]
                /\ raw.steps[i].risk_level \notin {"low", "medium", "high"})

\* C27: Planner.plan retries at most once: a validation failure on the first
\* LLM output triggers exactly one further LLM call, which carries the
\* validation error, so the LLM is called at most twice per plan(); if the
\* retried output fails validation too, plan() ends with an error and
\* returns no plan.
C27_RetryAtMostOnce ==
    ~pp_result.none =>
        LET r == pp_result.value
        IN /\ Len(r.calls) \in {1, 2}
           /\ r.calls[1] = LLMCall("plan", None)
           /\ (Len(r.calls) = 2) = FailsValidation(pp_raw)
           /\ Len(r.calls) = 2 =>
                 /\ r.calls[2].method = "plan_with_retry"
                 /\ r.calls[2].validation_error = Some(ValidationErrorOf(pp_raw))
           /\ (FailsValidation(pp_raw) /\ FailsValidation(pp_raw_retry)) =>
                 /\ r.outcome = "validation_error"
                 /\ r.plan = None
           /\ (r.outcome = "plan") = ~r.plan.none

\* plan() was called, the first output had a step without tool_name, and the
\* retried output failed validation as well.
C27_Witness ==
    /\ ~pp_result.none
    /\ FailsValidation(pp_raw)
    /\ FailsValidation(pp_raw_retry)
    /\ Len(pp_result.value.calls) = 2
    /\ pp_result.value.outcome = "validation_error"

(***************************************************************************)
(* Claims about clearing a session (SpecApi).                              *)
(***************************************************************************)
\* C28: clear deletes the requesting user's stored conversation: load
\* returns the empty conversation for that user until a later save for that
\* user, every other user's conversation is unchanged, and clearing when no
\* record exists succeeds and changes nothing.
C28_ClearDeletesOwnSession ==
    [][/\ (requests' = requests + 1 /\ last'.kind = "clear") =>
            /\ last'.status = 200
            /\ SessionLoad(sessions', last'.user) = <<>>
            /\ \A u \in Users \ {last'.user} :
                  /\ (u \in DOMAIN sessions') = (u \in DOMAIN sessions)
                  /\ u \in DOMAIN sessions => sessions'[u] = sessions[u]
            /\ last'.user \notin DOMAIN sessions => sessions' = sessions
       /\ \A u \in Users :
            (SessionLoad(sessions, u) = <<>> /\ SessionLoad(sessions', u) # <<>>) =>
                /\ use_anthropic
                /\ last'.kind \in {"command", "confirm"}
                /\ last'.user = u
                /\ last'.status = 200]_vars

\* A user who had a stored conversation cleared it while another user's
\* conversation was stored.
C28_Witness ==
    /\ last.kind = "clear"
    /\ last.found
    /\ last.user \notin DOMAIN sessions
    /\ \E u \in Users \ {last.user} :
          u \in DOMAIN sessions /\ sessions[u].messages # <<>>

(***************************************************************************)
(* Claims about the execution surface of planned steps (SpecPlanner).      *)
(***************************************************************************)
\* C29: each planned step's execution surface is the surface of the registry
\* entry of its tool name when the plan is created, and server when the name
\* is not registered; consequently a step planned for a registered device
\* tool is never dispatched to a tool's execute by the Executor, whatever
\* keys it has executed.
C29_SurfaceFromRegistry ==
    pl_done =>
        \A i \in DOMAIN pl_steps :
            LET name == pl_tool_calls[i].name
                step == pl_steps[i]
            IN /\ name \in DOMAIN registry =>
                     step.execution_target = registry[name].execution_target
               /\ name \notin DOMAIN registry => step.execution_target = "server"
               /\ (name \in DOMAIN registry /\ registry[name].execution_target = "device") =>
                     \A keys \in SUBSET {step.idempotency_key} :
                         ~Invokes(registry, keys, step)

\* A plan was made from a call of a registered device tool and a call of a
\* tool that is not registered.
C29_Witness ==
    /\ pl_done
    /\ Len(pl_steps) = 2
    /\ pl_tool_calls[1].name = "ios_eventkit.create_event"
    /\ pl_steps[1].execution_target = "device"
    /\ pl_tool_calls[2].name \notin DOMAIN registry
    /\ pl_steps[2].execution_target = "server"

(***************************************************************************)
(* Claims about the size of a stored conversation (SpecSession).           *)
(***************************************************************************)
\* C30: after a save the stored conversation has at most max_messages
\* turns, message_count equals the number of stored turns, and the stored
\* turns are a contiguous suffix of the conversation passed to save (all of
\* it when it has at most max_messages turns); load returns the stored
\* turns as they are, without trimming.
C30_StoredSuffixBounded ==
    "u1" \in DOMAIN sessions =>
        LET stored == sessions["u1"].messages
            n == Len(sm_messages)
        IN /\ Len(stored) <= SessionMaxMessages
           /\ sessions["u1"].message_count = Len(stored)
           /\ Len(stored) <= n
           /\ \A i \in DOMAIN stored : stored[i] = sm_messages[n - Len(stored) + i]
           /\ n <= SessionMaxMessages => stored = sm_messages
           /\ ~sm_loaded.none => sm_loaded.value = stored

\* A conversation longer than max_messages was saved, fewer turns than
\* max_messages were stored, and load returned them.
C30_Witness ==
    /\ "u1" \in DOMAIN sessions
    /\ Len(sm_messages) > SessionMaxMessages
    /\ Len(sessions["u1"].messages) < SessionMaxMessages
    /\ ~sm_loaded.none
    /\ Len(sm_loaded.value) = Len(sessions["u1"].messages)

(***************************************************************************)
(* Claims about the identity of steps (SpecApi).                           *)
(***************************************************************************)
\* The fields of a step that identify it.
Identity(step) ==
    [idempotency_key |-> step.idempotency_key,
     execution_target |-> step.execution_target,
     tool_name |-> step.tool_name,
     args |-> step.args,
     tool_call_id |-> step.tool_call_id]

\* No rule of the policy applies to the step.
MatchesNoRule(step) ==
    /\ step.tool_name \notin {"google_calendar.delete_event", "ios_eventkit.delete_event"}
    /\ \/ step.tool_name \notin {"google_calendar.create_event",
                                  "google_calendar.update_event"}
       \/ /\ ("attendees" \in DOMAIN step.args => step.args.attendees = <<>>)
          /\ ("send_updates" \in DOMAIN step.args =>
                 step.args.send_updates \notin {"all", "externalOnly"})

\* C31: a step's identity is fixed at creation: policy evaluation, storage
\* in and retrieval from the pending store and both execution passes never
\* change a step's idempotency_key, execution_target, tool_name, args or
\* tool_call_id, nor the number or order of a plan's steps; policy changes
\* only risk_level, requires_confirmation and confirmation_phrase and leaves
\* the three unchanged on a step that matches no rule.
C31_StepIdentityFixed ==
    [][requests' = requests + 1 =>
          /\ (last'.kind = "command" /\ last'.calls > 0) =>
                /\ Len(last'.steps) = Len(last'.created)
                /\ \A i \in DOMAIN last'.created :
                      /\ Identity(last'.steps[i]) = Identity(last'.created[i])
                      /\ MatchesNoRule(last'.created[i]) =>
                            last'.steps[i] = last'.created[i]
                /\ last'.requires_confirmation =>
                      pending'[last'.plan_id].plan = last'.steps
          /\ (last'.kind = "confirm" /\ last'.status \notin {403, 404}) =>
                last'.steps = pending[last'.plan_id].plan
          /\ \A j \in DOMAIN last'.pass.result.step_results :
                /\ last'.pass.result.step_results[j].step =
                      last'.steps[last'.pass.handled[j]]
                /\ \A k \in 1..(j - 1) : last'.pass.handled[k] < last'.pass.handled[j]]_vars

\* A plan of a list call and a notifying update call was evaluated, stored,
\* confirmed and executed to its second step.
C31_Witness ==
    /\ last.kind = "confirm"
    /\ last.status = 200
    /\ Len(last.steps) = 2
    /\ last.steps[1].tool_name = "google_calendar.list_events"
    /\ last.steps[2].tool_name = "google_calendar.update_event"
    /\ last.steps[2].risk_level = "medium"
    /\ Len(last.pass.result.step_results) = 2

(***************************************************************************)
(* SpecStep: one call of Executor._execute_step on a step of any surface   *)
(* and tool name, registered or not, with any executed-key set.            *)
(***************************************************************************)
StepShapes ==
    [tool_name : {"google_calendar.create_event", "ios_eventkit.create_event",
                  "unknown.tool"},
     args : {[title |-> "Dentist"]},
     risk_level : {"low"},
     requires_confirmation : BOOLEAN,
     confirmation_phrase : {NonePhrase},
     idempotency_key : ExecKeys,
     execution_target : {"server", "device"},
     tool_call_id : {"tc1"}]

StepInit ==
    /\ PolicyIdle
    /\ ExecutorIdle
    /\ ApiIdle
    /\ SessionIdle
    /\ PlannerIdle
    /\ PlanIdle
    /\ DeviceResultIdle
    /\ RegistryIdle
    /\ PlanRetryIdle
    /\ LoadIdle
    /\ ConfirmRaceIdle
    /\ CommandRaceIdle
    /\ registry = StartupRegistry
    /\ st_step \in StepShapes
    /\ st_keys \in SUBSET ExecKeys
    /\ st_outcome \in IF ToolMissing(registry, st_step.tool_name)
                      THEN {Return(<<>>)}
                      ELSE ToolOutcomes(registry, st_step.tool_name)
    /\ st_result = None

\* sr = await self._execute_step(step, context)
ExecuteStep ==
    /\ st_result = None
    /\ st_result' = Some(_execute_step(registry, st_keys, st_step, st_outcome, "a1"))
    /\ UNCHANGED <<polVars, registry, exVars, apiVars, sm_messages, plVars, apVars,
                   drVars, rgVars, ppVars, sm_loaded, st_step, st_keys, st_outcome,
                   cfVars, crVars>>

StepNext == ExecuteStep

SpecStep == StepInit /\ [][StepNext]_vars

(***************************************************************************)
(* Claims about one call of _execute_step (SpecStep).                      *)
(***************************************************************************)
\* C32: for each processed step the Executor applies its checks in the
\* fixed order (1) already-executed key, (2) device surface, (3) unknown
\* tool, (4) execute: a step whose key is already executed is reported as a
\* successful skip, without a DeviceAction and without an unknown-tool
\* failure, even when it is a device step or names an unregistered tool; a
\* device step whose key is new is delegated even when its tool is not
\* registered; a server step of an unregistered tool fails without execute.
C32_CheckOrder ==
    ~st_result.none =>
        LET r == st_result.value
            sr == r.sr
            key == st_step.idempotency_key
        IN /\ sr.step = st_step
           /\ IF key \in st_keys
              THEN /\ sr.success
                   /\ sr.result = Some([skipped |-> TRUE])
                   /\ sr.error.none
                   /\ sr.device_action.none
                   /\ ~r.invoked
                   /\ r.keys = st_keys
              ELSE IF st_step.execution_target = "device"
              THEN /\ sr.success
                   /\ sr.error.none
                   /\ ~sr.device_action.none
                   /\ ~r.invoked
                   /\ r.keys = st_keys \union {key}
              ELSE IF st_step.tool_name \notin DOMAIN registry
              THEN /\ ~sr.success
                   /\ sr.error = Some(<<"Unknown tool", st_step.tool_name>>)
                   /\ sr.device_action.none
                   /\ ~r.invoked
                   /\ r.keys = st_keys
              ELSE /\ r.invoked
                   /\ sr.success = ~st_outcome.raises
                   /\ sr.device_action.none

\* A device step of an unregistered tool whose key was already executed was
\* handed to _execute_step and came back as a skip.
C32_Witness ==
    /\ ~st_result.none
    /\ st_step.execution_target = "device"
    /\ st_step.tool_name \notin DOMAIN registry
    /\ st_step.idempotency_key \in st_keys
    /\ st_result.value.sr.result = Some([skipped |-> TRUE])

(***************************************************************************)
(* Claims about stored conversations across requests (SpecApi).            *)
(***************************************************************************)
\* C33: after any sequence of command, confirm and clear requests, each
\* user's stored conversation is empty or begins with a turn of role user
\* whose content is purely textual (no tool-result or tool-use block).
C33_StoredStartsWithUserText ==
    \A u \in DOMAIN sessions :
        \/ sessions[u].messages = <<>>
        \/ /\ sessions[u].messages[1].role = "user"
           /\ \/ sessions[u].messages[1].content.kind = "str"
              \/ \A b \in DOMAIN sessions[u].messages[1].content.blocks :
                    sessions[u].messages[1].content.blocks[b].type = "text"

\* After at least two requests, a request of a user was answered and saved
\* a conversation of four turns for that user that holds a tool-result turn
\* and ends with an assistant turn.
C33_Witness ==
    /\ requests >= 2
    /\ \E u \in DOMAIN sessions :
          /\ sessions[u].messages # <<>>
          /\ Len(sessions[u].messages) < SessionMaxMessages
          /\ sessions[u].messages[Len(sessions[u].messages)].role = "assistant"
          /\ \E i \in DOMAIN sessions[u].messages :
                /\ sessions[u].messages[i].role = "user"
                /\ sessions[u].messages[i].content.kind = "list"
          /\ last.kind \in {"command", "confirm"}
          /\ last.user = u
          /\ last.status = 200
          /\ Len(SessionLoad(sessions, u)) = 4

\* The tool-use blocks of the turn at position i are each answered by a
\* tool-result block with the same id in the turn at position i + 1.
Answered(messages, i) ==
    \A b \in DOMAIN messages[i].content.blocks :
        messages[i].content.blocks[b].type = "tool_use" =>
            /\ i < Len(messages)
            /\ messages[i + 1].content.kind = "list"
            /\ \E c \in DOMAIN messages[i + 1].content.blocks :
                  /\ messages[i + 1].content.blocks[c].type = "tool_result"
                  /\ messages[i + 1].content.blocks[c].id = messages[i].content.blocks[b].id

\* C34: message-format continuity: in every conversation persisted by save
\* (the conversation sent for the follow-up and the answer to it), each
\* tool-call block of an assistant turn is answered by a tool-result block
\* with the same tool-call id in the immediately following turn, also when
\* the plan stopped at a failed step and when it waits for confirmation.
C34_ToolCallsAnswered ==
    \A u \in DOMAIN sessions :
        \A i \in DOMAIN sessions[u].messages :
            sessions[u].messages[i].role = "assistant" =>
                Answered(sessions[u].messages, i)

(***************************************************************************)
(* Claims about the pending store across requests (SpecApi).               *)
(***************************************************************************)
\* C35: a confirm request that is rejected leaves the pending store
\* unchanged: after a confirm by a non-owner fails with Forbidden the entry
\* of that plan_id is still present, with its plan and owner, so that a later
\* confirm by the owning user finds it.
C35_RejectedConfirmKeepsEntry ==
    [][(requests' = requests + 1 /\ last'.kind = "confirm" /\ last'.status = 403) =>
          /\ last'.plan_id \in DOMAIN pending'
          /\ pending' = pending]_vars

(***************************************************************************)
(* SpecConfirmRace: concurrent POST /command/confirm requests for one      *)
(* pending plan in one process.  The handlers run on one event loop and    *)
(* interleave at their awaits: the pop and the owner check are one step    *)
(* (no await lies between them), each awaited _execute_step is a step, and *)
(* the verify/audit loop with the summary is the last step.  The provider  *)
(* is OpenAI, so no conversation is saved.                                 *)
(***************************************************************************)
MaxConfirms == 2

\* The plan_id all the requests name.
RacePlanId == 1

\* Plans that wait for confirmation, as /command stores them.
RacePlans ==
    { steps \in { evaluate(_tool_calls_to_steps(StartupRegistry, WithIds(calls), RacePlanId)) :
                     calls \in LLMCallLists } :
        PlanNeedsConfirmation(steps) }

ConfirmRaceInit ==
    /\ PolicyIdle
    /\ ExecutorIdle
    /\ SessionIdle
    /\ PlannerIdle
    /\ PlanIdle
    /\ DeviceResultIdle
    /\ RegistryIdle
    /\ PlanRetryIdle
    /\ LoadIdle
    /\ StepIdle
    /\ CommandRaceIdle
    /\ registry = StartupRegistry
    /\ provider = "openai"
    /\ \E steps \in RacePlans :
          /\ pending = [p \in {RacePlanId} |->
                          [plan |-> steps, owner |-> "u1", session_messages |-> <<>>]]
          /\ cf_runs = [i \in DOMAIN steps |-> 0]
    /\ sessions = <<>>
    /\ next_plan = RacePlanId + 1
    /\ requests = 0
    /\ plan_user = [p \in {RacePlanId} |-> "u1"]
    /\ consumed = [p \in PlanIds |-> 0]
    /\ last = NoRequest
    /\ cf_users \in [1..MaxConfirms -> Users]
    /\ cf_pc = [r \in 1..MaxConfirms |-> "start"]
    /\ cf_entry = [r \in 1..MaxConfirms |-> None]
    /\ cf_pass = [r \in 1..MaxConfirms |-> NewPass({})]
    /\ cf_i = [r \in 1..MaxConfirms |-> 1]
    /\ cf_status = [r \in 1..MaxConfirms |-> 0]

\* entry = _pending_plans.pop(body.plan_id, None); 404 if None; 403 if the
\* caller is not the owner; otherwise the pass begins.
ConfirmPop(r) ==
    /\ cf_pc[r] = "start"
    /\ pending' = PendingPop(pending, RacePlanId)
    /\ IF RacePlanId \notin DOMAIN pending
       THEN /\ cf_status' = [cf_status EXCEPT ![r] = 404]
            /\ cf_pc' = [cf_pc EXCEPT ![r] = "done"]
            /\ UNCHANGED cf_entry
       ELSE /\ cf_entry' = [cf_entry EXCEPT ![r] = Some(pending[RacePlanId])]
            /\ IF NotOwner(pending[RacePlanId].owner, cf_users[r])
               THEN /\ cf_status' = [cf_status EXCEPT ![r] = 403]
                    /\ cf_pc' = [cf_pc EXCEPT ![r] = "done"]
               ELSE /\ cf_pc' = [cf_pc EXCEPT ![r] = "run"]
                    /\ UNCHANGED cf_status
    /\ UNCHANGED <<cf_users, cf_pass, cf_i, cf_runs>>

\* execute_confirmed_plan: sr = await self._execute_step(step, context);
\* result.add(sr); break on failure
ConfirmRunStep(r) ==
    /\ cf_pc[r] = "run"
    /\ cf_i[r] <= Len(cf_entry[r].value.plan)
    /\ LET steps == cf_entry[r].value.plan
           i == cf_i[r]
           acc == cf_pass[r]
       IN \E outcome \in PlanOutcomes(registry, steps) :
             \E x \in {_execute_step(registry, acc.keys, steps[i], outcome[i], <<"action", i>>)} :
                /\ cf_pass' = [cf_pass EXCEPT ![r] =
                                  [result |-> ResultAdd(acc.result, x.sr),
                                   keys |-> x.keys,
                                   invoked |-> IF x.invoked THEN acc.invoked \union {i}
                                               ELSE acc.invoked,
                                   handled |-> Append(acc.handled, i)]]
                /\ cf_runs' = [cf_runs EXCEPT ![i] =
                                  IF x.invoked \/ ~x.sr.device_action.none THEN @ + 1 ELSE @]
                /\ cf_i' = [cf_i EXCEPT ![r] = IF BreaksLoop(x.sr) THEN Len(steps) + 1 ELSE i + 1]
    /\ UNCHANGED <<pending, cf_users, cf_pc, cf_entry, cf_status>>

\* The verify/audit loop and the summary; the response is returned unless a
\* verify raised.
ConfirmFinish(r) ==
    /\ cf_pc[r] = "run"
    /\ cf_i[r] > Len(cf_entry[r].value.plan)
    /\ \E vouts \in VerifyOutcomeMaps(cf_pass[r]) :
          cf_status' = [cf_status EXCEPT ![r] =
                           IF RaisedAt(cf_pass[r], vouts) # 0 THEN 500 ELSE 200]
    /\ cf_pc' = [cf_pc EXCEPT ![r] = "done"]
    /\ UNCHANGED <<pending, cf_users, cf_entry, cf_pass, cf_i, cf_runs>>

ConfirmRaceNext ==
    /\ \E r \in 1..MaxConfirms :
          \/ ConfirmPop(r)
          \/ ConfirmRunStep(r)
          \/ ConfirmFinish(r)
    /\ UNCHANGED <<polVars, registry, exVars, provider, sessions, next_plan, requests,
                   plan_user, consumed, last, sm_messages, plVars, apVars, drVars,
                   rgVars, ppVars, sm_loaded, stVars, crVars>>

SpecConfirmRace == ConfirmRaceInit /\ [][ConfirmRaceNext]_vars

(***************************************************************************)
(* Claims about concurrent confirms (SpecConfirmRace).                     *)
(***************************************************************************)
\* C36: for any interleaving of concurrent confirm requests for the same
\* plan_id within one process, at most one request obtains the pending entry
\* and only a request that obtained it runs the execute-confirmed pass; every
\* other request fails with NotFound, so each step of the pending plan is
\* executed or delegated at most once across all requests.
C36_OneConfirmWins ==
    /\ Cardinality({r \in DOMAIN cf_pc : ~cf_entry[r].none}) <= 1
    /\ \A r \in DOMAIN cf_pc :
          /\ cf_pass[r] # NewPass({}) => ~cf_entry[r].none
          /\ (cf_entry[r].none /\ cf_pc[r] = "done") =>
                /\ cf_status[r] = 404
                /\ cf_pass[r] = NewPass({})
    /\ \A i \in DOMAIN cf_runs : cf_runs[i] <= 1

\* While the owner's confirm was in the middle of its pass, having run its
\* first step, another confirm of the owner for the same plan got NotFound.
C36_Witness ==
    \E r, q \in DOMAIN cf_pc :
        /\ r # q
        /\ cf_users[r] = "u1"
        /\ cf_users[q] = "u1"
        /\ cf_pc[r] = "run"
        /\ cf_i[r] = 2
        /\ cf_runs[1] = 1
        /\ cf_pc[q] = "done"
        /\ cf_status[q] = 404

(***************************************************************************)
(* Claims about the conversation a confirm persists (SpecApi).             *)
(***************************************************************************)
\* The turns a confirm itself appends: the tool-result turn and the
\* assistant's reply.
MaxConfirmTurns == 2

\* C37: the conversation persisted by a confirm request extends the user's
\* conversation as stored at the time of the confirm: what is stored
\* afterwards is turns of the stored conversation up to its end (leading
\* turns may be trimmed away) followed by the turns the confirm appended, so
\* turns saved by later commands are still present and cleared turns do not
\* reappear.
C37_ConfirmExtendsStored ==
    [][(requests' = requests + 1 /\ last'.kind = "confirm" /\ sessions' # sessions) =>
          LET old == SessionLoad(sessions, last'.user)
              new == SessionLoad(sessions', last'.user)
          IN \E k \in 0..MaxConfirmTurns, j \in 1..(Len(old) + 1) :
                /\ k <= Len(new)
                /\ SubSeq(new, 1, Len(new) - k) = SubSeq(old, j, Len(old))]_vars

(***************************************************************************)
(* SpecCommandRace: concurrent POST /command requests under the Anthropic  *)
(* provider.  A handler loads the conversation (await sm.load()), then     *)
(* awaits the LLM and the execution, and at the end saves the list it      *)
(* loaded with its own turns appended; other handlers run in between.      *)
(***************************************************************************)
MaxCommands == 2

\* A conversation of one earlier exchange.
EarlierTurns ==
    append_assistant_response(append_user_message(<<>>), CHOOSE r \in LLMResponses : NoToolCalls(r))

CommandRaceInit ==
    /\ PolicyIdle
    /\ ExecutorIdle
    /\ SessionIdle
    /\ PlannerIdle
    /\ PlanIdle
    /\ DeviceResultIdle
    /\ RegistryIdle
    /\ PlanRetryIdle
    /\ LoadIdle
    /\ StepIdle
    /\ ConfirmRaceIdle
    /\ registry = StartupRegistry
    /\ provider = "anthropic"
    /\ pending = <<>>
    /\ sessions \in {<<>>, SessionSave(<<>>, "u1", EarlierTurns)}
    /\ cr_start = sessions
    /\ next_plan = 1
    /\ requests = 0
    /\ plan_user = <<>>
    /\ consumed = [p \in PlanIds |-> 0]
    /\ last = NoRequest
    /\ cr_users \in [1..MaxCommands -> Users]
    /\ cr_pc = [r \in 1..MaxCommands |-> "start"]
    /\ cr_messages = [r \in 1..MaxCommands |-> <<>>]
    /\ cr_added = [r \in 1..MaxCommands |-> <<>>]

\* handle_command, step 1: session_messages = await sm.load()
RaceLoad(r) ==
    /\ cr_pc[r] = "start"
    /\ cr_messages' = [cr_messages EXCEPT ![r] = SessionLoad(sessions, cr_users[r])]
    /\ cr_pc' = [cr_pc EXCEPT ![r] = "loaded"]
    /\ UNCHANGED <<sessions, pending, next_plan, plan_user, cr_users, cr_added, cr_start>>

\* The request saved `messages`: the turns after the loaded ones are its own.
RaceSaved(r, messages) ==
    /\ sessions' = SessionSave(sessions, cr_users[r], messages)
    /\ cr_messages' = [cr_messages EXCEPT ![r] = messages]
    /\ cr_added' = [cr_added EXCEPT ![r] =
                       SubSeq(messages, Len(cr_messages[r]) + 1, Len(messages))]

\* handle_command, steps 2-8: the LLM's answer, the user and assistant turns,
\* then the chat reply, the deferred plan or the executed plan, each ending
\* with sm.save(session_messages) unless a verify raised.
RaceRespond(r) ==
    /\ cr_pc[r] = "loaded"
    /\ cr_pc' = [cr_pc EXCEPT ![r] = "done"]
    /\ \E response \in LLMResponses :
       \E messages \in {append_assistant_response(append_user_message(cr_messages[r]),
                                                  response)} :
       \E steps \in {evaluate(_tool_calls_to_steps(registry, response.tool_calls,
                                                   next_plan))} :
          \/ /\ NoToolCalls(response)
             /\ RaceSaved(r, messages)
             /\ UNCHANGED <<pending, next_plan, plan_user>>
          \/ /\ ~NoToolCalls(response)
             /\ PlanNeedsConfirmation(steps)
             /\ pending' = [p \in DOMAIN pending \union {next_plan} |->
                              IF p = next_plan
                              THEN [plan |-> steps, owner |-> cr_users[r],
                                    session_messages |-> messages]
                              ELSE pending[p]]
             /\ RaceSaved(r, messages)
             /\ next_plan' = next_plan + 1
             /\ plan_user' = [p \in DOMAIN plan_user \union {next_plan} |->
                                IF p = next_plan THEN cr_users[r] ELSE plan_user[p]]
          \/ /\ ~NoToolCalls(response)
             /\ ~PlanNeedsConfirmation(steps)
             /\ \E outs \in PlanOutcomes(registry, steps), follow_up \in FollowUps :
                \E pass \in {execute_plan(registry, steps, outs)} :
                \E vouts \in VerifyOutcomeMaps(pass) :
                   IF RaisedAt(pass, vouts) # 0
                   THEN UNCHANGED <<sessions, cr_messages, cr_added>>
                   ELSE RaceSaved(r, _llm_summarize_anthropic(messages,
                                         ToolCallIds(response.tool_calls),
                                         pass.result.step_results, follow_up))
             /\ next_plan' = next_plan + 1
             /\ plan_user' = [p \in DOMAIN plan_user \union {next_plan} |->
                                IF p = next_plan THEN cr_users[r] ELSE plan_user[p]]
             /\ UNCHANGED pending
    /\ UNCHANGED <<cr_users, cr_start>>

CommandRaceNext ==
    /\ \E r \in 1..MaxCommands :
          \/ RaceLoad(r)
          \/ RaceRespond(r)
    /\ UNCHANGED <<polVars, registry, exVars, provider, requests, consumed, last,
                   sm_messages, plVars, apVars, drVars, rgVars, ppVars, sm_loaded,
                   stVars, cfVars>>

SpecCommandRace == CommandRaceInit /\ [][CommandRaceNext]_vars

(***************************************************************************)
(* Claims about concurrent commands (SpecCommandRace).                     *)
(***************************************************************************)
\* The requests of a user, in every order.
Orders(user) ==
    LET rs == {r \in DOMAIN cr_users : cr_users[r] = user}
    IN {f \in [1..Cardinality(rs) -> rs] : \A i, j \in DOMAIN f : f[i] = f[j] => i = j}

RECURSIVE AddedUpTo(_, _)
\* The turns the first n requests of an order appended, in that order.
AddedUpTo(ord, n) ==
    IF n = 0 THEN <<>> ELSE AddedUpTo(ord, n - 1) \o cr_added[ord[n]]

IsSuffix(a, b) ==
    /\ Len(a) <= Len(b)
    /\ a = SubSeq(b, Len(b) - Len(a) + 1, Len(b))

\* C38: for any interleaving of concurrent /command requests of the same
\* user, once all of them have completed the stored conversation contains
\* the turns appended by all of them: it is the conversation stored before,
\* followed by each request's turns in some ord, less the leading turns
\* that trimming removed (none when everything fits the window).
C38_NoLostTurns ==
    \A user \in Users :
        (\A r \in DOMAIN cr_pc : cr_users[r] = user => cr_pc[r] = "done") =>
            \E ord \in Orders(user) :
                LET all == SessionLoad(cr_start, user) \o AddedUpTo(ord, Len(ord))
                    stored == SessionLoad(sessions, user)
                IN /\ IsSuffix(stored, all)
                   /\ Len(all) <= SessionMaxMessages => stored = all

(***************************************************************************)
(* Claims about the lifetime of a pending entry (SpecApi).                 *)
(***************************************************************************)
\* C39: a pending plan entry is removed only by a confirm request for its
\* own plan_id: every other step (a new command, a confirm of another
\* plan_id, a device-result report, a session clear) leaves the entry in the
\* store with the same plan and the same owning user, so a plan that is
\* never confirmed stays in the store.
C39_RemovedOnlyByOwnConfirm ==
    [][\A p \in DOMAIN pending :
          \/ /\ requests' = requests + 1
             /\ last'.kind = "confirm"
             /\ last'.plan_id = p
          \/ /\ p \in DOMAIN pending'
             /\ pending'[p].plan = pending[p].plan
             /\ pending'[p].owner = pending[p].owner]_vars

\* A plan is still pending after its owner confirmed another plan_id, which
\* was not found.
C39_Witness ==
    \E p \in DOMAIN pending :
        /\ last.kind = "confirm"
        /\ last.plan_id # p
        /\ last.user = pending[p].owner
        /\ last.status = 404

====
